---- MODULE Spec2Model ----
(***************************************************************************)
(* Verification model of the usage monitor of auto-stop-firebase-ext:      *)
(* monitorUsage / fetchBudget (monitoring/monitoring.js), getPrice         *)
(* (monitoring/getPrice.js) and the cost calculators getFirestoreCost,     *)
(* getHostingCost, getStorageCost and getCloudFunctionsCost.               *)
(*                                                                         *)
(* JavaScript numbers are modelled as exact rationals n/d in lowest terms  *)
(* plus NaN and +/-Infinity.  Strings that the code parses (environment    *)
(* variables, int64Value, units) are sequences of one-character strings,   *)
(* so that parseFloat and parseInt are computed character by character.    *)
(* Byte counts are measured in MiB (2^20 bytes): 1 GiB is 1024 model       *)
(* bytes.  Every byte quantity of the code is only ever summed, compared   *)
(* with an allowance that is a whole number of GiB, or divided by 1 GiB.   *)
(***************************************************************************)
EXTENDS Integers, Sequences, FiniteSets, TLC

(***************************************************************************)
(* JavaScript values                                                       *)
(***************************************************************************)
undefined == [t |-> "undefined"]

Str(s) == [t |-> "string", s |-> s]

NaN == [t |-> "number", k |-> "nan", n |-> 0, d |-> 1]

Infinity == [t |-> "number", k |-> "inf", n |-> 1, d |-> 1]

NegInfinity == [t |-> "number", k |-> "inf", n |-> -1, d |-> 1]

Abs(i) == IF i < 0 THEN -i ELSE i

RECURSIVE Gcd(_, _)
Gcd(a, b) == IF b = 0 THEN a ELSE Gcd(b, a % b)

\* The finite number n/d (d # 0), in lowest terms with a positive denominator.
Num(n, d) ==
  LET g == Gcd(Abs(n), Abs(d))
      s == IF d < 0 THEN -1 ELSE 1
  IN  [t |-> "number", k |-> "fin", n |-> s * (n \div g), d |-> s * (d \div g)]

Zero == Num(0, 1)

isFinite(x) == x.t = "number" /\ x.k = "fin"

\* isNaN(x): ToNumber of a value that is not a number (undefined) is NaN.
isNaN(x) == x.t # "number" \/ x.k = "nan"

Sign(x) == IF x.n > 0 THEN 1 ELSE IF x.n < 0 THEN -1 ELSE 0

Neg(x) == IF isNaN(x) THEN NaN ELSE [x EXCEPT !.n = -x.n]

\* x + y
Add(x, y) ==
  IF isNaN(x) \/ isNaN(y) THEN NaN
  ELSE IF x.k = "inf" /\ y.k = "inf" THEN (IF x.n = y.n THEN x ELSE NaN)
  ELSE IF x.k = "inf" THEN x
  ELSE IF y.k = "inf" THEN y
  ELSE LET g == Gcd(x.d, y.d)
       IN  Num(x.n * (y.d \div g) + y.n * (x.d \div g), (x.d \div g) * y.d)

\* x - y
Sub(x, y) == Add(x, Neg(y))

\* x * y
Mul(x, y) ==
  IF isNaN(x) \/ isNaN(y) THEN NaN
  ELSE IF x.k = "inf" \/ y.k = "inf"
       THEN (IF Sign(x) * Sign(y) = 0 THEN NaN
             ELSE IF Sign(x) * Sign(y) > 0 THEN Infinity ELSE NegInfinity)
  ELSE LET g1 == Gcd(Abs(x.n), y.d)
           g2 == Gcd(Abs(y.n), x.d)
       IN  Num((x.n \div g1) * (y.n \div g2), (x.d \div g2) * (y.d \div g1))

\* x / y
Div(x, y) ==
  IF isNaN(x) \/ isNaN(y) THEN NaN
  ELSE IF x.k = "inf" /\ y.k = "inf" THEN NaN
  ELSE IF y.k = "inf" THEN Zero
  ELSE IF y.n = 0
       THEN (IF Sign(x) = 0 THEN NaN
             ELSE IF Sign(x) > 0 THEN Infinity ELSE NegInfinity)
  ELSE IF x.k = "inf"
       THEN (IF Sign(x) * Sign(y) > 0 THEN Infinity ELSE NegInfinity)
  ELSE Mul(x, Num(y.d, y.n))

\* Order of a/b and c/d for a, c >= 0 and b, d > 0: -1, 0 or 1.  Computed on
\* quotients and remainders, so that no product is formed.
RECURSIVE CmpPos(_, _, _, _)
CmpPos(a, b, c, d) ==
  LET q1 == a \div b
      q2 == c \div d
      r1 == a % b
      r2 == c % d
  IN  IF q1 < q2 THEN -1
      ELSE IF q1 > q2 THEN 1
      ELSE IF r1 = 0 /\ r2 = 0 THEN 0
      ELSE IF r1 = 0 THEN -1
      ELSE IF r2 = 0 THEN 1
      ELSE CmpPos(d, r2, b, r1)

\* Order of two finite numbers: -1, 0 or 1.
Cmp(x, y) ==
  IF Sign(x) # Sign(y) THEN (IF Sign(x) < Sign(y) THEN -1 ELSE 1)
  ELSE IF Sign(x) = 0 THEN 0
  ELSE IF Sign(x) > 0 THEN CmpPos(x.n, x.d, y.n, y.d)
  ELSE CmpPos(-y.n, y.d, -x.n, x.d)

\* x < y  (false when either operand is NaN)
Lt(x, y) ==
  IF isNaN(x) \/ isNaN(y) THEN FALSE
  ELSE IF x.k = "inf" \/ y.k = "inf"
       THEN (IF x.k = "inf" /\ y.k = "inf" THEN x.n < y.n
             ELSE IF x.k = "inf" THEN x.n < 0
             ELSE y.n > 0)
  ELSE Cmp(x, y) < 0

\* x > y
Gt(x, y) == Lt(y, x)

\* x <= y  (false when either operand is NaN)
Le(x, y) == ~isNaN(x) /\ ~isNaN(y) /\ ~Lt(y, x)

\* Mutation of MathMax: the second argument, without the floor.
MathMaxUnfloored(x, y) == y

\* Math.max(x, y)
MathMax(x, y) ==
  IF isNaN(x) \/ isNaN(y) THEN NaN ELSE IF Lt(x, y) THEN y ELSE x

(***************************************************************************)
(* String conversions                                                      *)
(***************************************************************************)
DigitChars == <<"0", "1", "2", "3", "4", "5", "6", "7", "8", "9">>

IsDigit(c) == \E i \in 1..10 : DigitChars[i] = c

DigitVal(c) == (CHOOSE i \in 1..10 : DigitChars[i] = c) - 1

RECURSIVE Pow10(_)
Pow10(k) == IF k = 0 THEN 1 ELSE 10 * Pow10(k - 1)

RECURSIVE NatToChars(_)
NatToChars(i) ==
  IF i < 10 THEN <<DigitChars[i + 1]>>
  ELSE Append(NatToChars(i \div 10), DigitChars[(i % 10) + 1])

\* JSToString of the values the code feeds to parseFloat / parseInt:
\* undefined, strings, and integer-valued or non-finite numbers.
JSToString(v) ==
  IF v.t = "undefined"
  THEN <<"u", "n", "d", "e", "f", "i", "n", "e", "d">>
  ELSE IF v.t = "string" THEN v.s
  ELSE IF v.k = "nan" THEN <<"N", "a", "N">>
  ELSE IF v.k = "inf"
       THEN (IF v.n < 0 THEN <<"-">> ELSE <<>>)
            \o <<"I", "n", "f", "i", "n", "i", "t", "y">>
  ELSE IF v.d = 1
       THEN (IF v.n < 0 THEN <<"-">> ELSE <<>>) \o NatToChars(Abs(v.n))
  ELSE [t |-> "unsupported"]

\* First index i >= the given one that does not hold white space.
RECURSIVE SkipWhiteSpace(_, _)
SkipWhiteSpace(s, i) ==
  IF i <= Len(s) /\ s[i] = " " THEN SkipWhiteSpace(s, i + 1) ELSE i

\* Index after the run of decimal digits that starts at i.
RECURSIVE DigitsEnd(_, _)
DigitsEnd(s, i) ==
  IF i <= Len(s) /\ IsDigit(s[i]) THEN DigitsEnd(s, i + 1) ELSE i

\* Value of the decimal digits s[i..j-1].
RECURSIVE DigitsValue(_, _, _)
DigitsValue(s, i, j) ==
  IF j <= i THEN 0 ELSE 10 * DigitsValue(s, i, j - 1) + DigitVal(s[j - 1])

StartsWith(s, i, w) ==
  /\ i + Len(w) - 1 <= Len(s)
  /\ \A k \in 1..Len(w) : s[i + k - 1] = w[k]

\* parseInt of the characters s from index i0, the first after white space.
ParseIntDigits(s, i0) ==
  LET signed == i0 <= Len(s) /\ s[i0] \in {"-", "+"}
      i1     == IF signed THEN i0 + 1 ELSE i0
  IN  IF DigitsEnd(s, i1) = i1 THEN NaN
      ELSE Num((IF signed /\ s[i0] = "-" THEN -1 ELSE 1)
                 * DigitsValue(s, i1, DigitsEnd(s, i1)), 1)

ParseIntChars(s) == ParseIntDigits(s, SkipWhiteSpace(s, 1))

\* parseInt(v, 10)
parseInt(v) == ParseIntChars(JSToString(v))

\* parseFloat reads the longest prefix of the trimmed string that is a
\* decimal literal: sign, integer digits s[i1..ie-1], fraction digits
\* s[fs..fe-1] and exponent digits s[xs..xe-1] after an "e" at p.
ParseFloatExponent(s, sg, i1, ie, fs, fe, p, xs, xe) ==
  LET xv == IF xe > xs /\ xs > p
            THEN (IF s[p + 1] = "-" THEN -1 ELSE 1) * DigitsValue(s, xs, xe)
            ELSE 0
  IN  Mul(Mul(Num(sg, 1),
              Add(Num(DigitsValue(s, i1, ie), 1),
                  Num(DigitsValue(s, fs, fe), Pow10(fe - fs)))),
          Num(Pow10(IF xv >= 0 THEN xv ELSE 0),
              Pow10(IF xv >= 0 THEN 0 ELSE -xv)))

ParseFloatFraction(s, sg, i1, ie, fs, fe) ==
  LET p  == IF ie = i1 /\ fe = fs THEN ie ELSE fe
      ex == p <= Len(s) /\ s[p] \in {"e", "E"}
      xs == IF ~ex THEN p
            ELSE IF p + 1 <= Len(s) /\ s[p + 1] \in {"-", "+"} THEN p + 2
            ELSE p + 1
  IN  IF StartsWith(s, i1, <<"I", "n", "f", "i", "n", "i", "t", "y">>)
      THEN (IF sg < 0 THEN NegInfinity ELSE Infinity)
      ELSE IF ie = i1 /\ fe = fs THEN NaN
      ELSE ParseFloatExponent(s, sg, i1, ie, fs, fe, p, xs,
                              IF ex THEN DigitsEnd(s, xs) ELSE xs)

ParseFloatInteger(s, sg, i1, ie) ==
  LET fs == IF ie <= Len(s) /\ s[ie] = "." THEN ie + 1 ELSE ie
  IN  ParseFloatFraction(s, sg, i1, ie, fs, DigitsEnd(s, fs))

ParseFloatSign(s, i0) ==
  LET signed == i0 <= Len(s) /\ s[i0] \in {"-", "+"}
      i1     == IF signed THEN i0 + 1 ELSE i0
  IN  ParseFloatInteger(s, IF signed /\ s[i0] = "-" THEN -1 ELSE 1,
                        i1, DigitsEnd(s, i1))

ParseFloatChars(s) == ParseFloatSign(s, SkipWhiteSpace(s, 1))

\* parseFloat(v)
parseFloat(v) == ParseFloatChars(JSToString(v))

(***************************************************************************)
(* getPrice                                                                *)
(***************************************************************************)
\* The message of the error that getPrice throws inside its try block and
\* then logs, "" when it throws none.
getPriceError(customPrice, minPrice, maxPrice) ==
  LET customPriceNumber == parseFloat(customPrice)
  IN  IF ~isFinite(customPriceNumber) THEN "NaN/Infinite"
      ELSE IF Lt(customPriceNumber, Zero) THEN "price must be greater than 0"
      ELSE IF Lt(customPriceNumber, minPrice) THEN "below minimum allowed price"
      ELSE IF Gt(customPriceNumber, maxPrice) THEN "above maximum allowed price"
      ELSE ""

\* Mutation of getPrice: a price equal to minPrice is refused.
getPriceAboveMin(customPrice, defaultPrice, minPrice, maxPrice) ==
  LET customPriceNumber == parseFloat(customPrice)
  IN  IF ~isFinite(customPriceNumber) THEN defaultPrice
      ELSE IF Lt(customPriceNumber, Zero) THEN defaultPrice
      ELSE IF Le(customPriceNumber, minPrice) THEN defaultPrice
      ELSE IF Gt(customPriceNumber, maxPrice) THEN defaultPrice
      ELSE customPriceNumber

\* Mutation of getPrice: the upper bound is not checked.
getPriceNoMax(customPrice, defaultPrice, minPrice, maxPrice) ==
  LET customPriceNumber == parseFloat(customPrice)
  IN  IF ~isFinite(customPriceNumber) THEN defaultPrice
      ELSE IF Lt(customPriceNumber, Zero) THEN defaultPrice
      ELSE IF Lt(customPriceNumber, minPrice) THEN defaultPrice
      ELSE customPriceNumber

getPrice(customPrice, defaultPrice, minPrice, maxPrice) ==
  LET customPriceNumber == parseFloat(customPrice)
  IN  IF ~isFinite(customPriceNumber) THEN defaultPrice
      ELSE IF Lt(customPriceNumber, Zero) THEN defaultPrice
      ELSE IF Lt(customPriceNumber, minPrice) THEN defaultPrice
      ELSE IF Gt(customPriceNumber, maxPrice) THEN defaultPrice
      ELSE customPriceNumber

(***************************************************************************)
(* Exceptions: a computation either completes with a value or throws.      *)
(***************************************************************************)
Ok(v) == [ok |-> TRUE, v |-> v, err |-> ""]

Throw(e) == [ok |-> FALSE, v |-> undefined, err |-> e]

(***************************************************************************)
(* Time series entries.  An entry is a record                              *)
(*   [resource |-> R, metric |-> M, points |-> <<P, ...>>]                 *)
(* where R and M are undefined or an object whose labels are undefined or  *)
(* an object with label properties, and a point is                         *)
(*   [seconds |-> unix time, int64Value |-> V, doubleValue |-> V].         *)
(***************************************************************************)
Obj(f) == [t |-> "object", p |-> f]

Labelled(f) == Obj([labels |-> Obj(f)])

\* o.key for an object o: undefined when the property is absent.
Prop(o, key) == IF key \in DOMAIN o.p THEN o.p[key] ELSE undefined

\* x?.labels?.key
OptLabel(x, key) ==
  IF x.t = "undefined" THEN undefined
  ELSE IF Prop(x, "labels").t = "undefined" THEN undefined
  ELSE Prop(Prop(x, "labels"), key)

\* x.labels.key, which throws a TypeError when x or x.labels is undefined.
StrictLabel(x, key) ==
  IF x.t = "undefined" \/ Prop(x, "labels").t = "undefined"
  THEN Throw("TypeError")
  ELSE Ok(Prop(Prop(x, "labels"), key))

\* a ?? b
Coalesce(a, b) == IF a.t = "undefined" THEN b ELSE a

\* !v for the values the code tests: undefined, numbers and strings.
Falsy(v) ==
  \/ v.t = "undefined"
  \/ v.t = "number" /\ (v.k = "nan" \/ (v.k = "fin" /\ v.n = 0))
  \/ v.t = "string" /\ v.s = <<>>

StrZero == Str(<<"0">>)

(***************************************************************************)
(* Calendar: the day of the month of a unix time in America/Los_Angeles    *)
(* (UTC-8, and UTC-7 from the second Sunday of March 02:00 to the first    *)
(* Sunday of November 02:00), as moment-timezone computes it.              *)
(***************************************************************************)
SecondsPerDay == 24 * 60 * 60

SecondsPerHour == 60 * 60

\* Days since 1970-01-01 of the civil date y-m-d.
DaysFromCivil(y, m, d) ==
  LET yy  == IF m <= 2 THEN y - 1 ELSE y
      era == yy \div 400
      yoe == yy - era * 400
      mp  == IF m > 2 THEN m - 3 ELSE m + 9
      doy == (153 * mp + 2) \div 5 + d - 1
      doe == yoe * 365 + yoe \div 4 - yoe \div 100 + doy
  IN  era * 146097 + doe - 719468

\* The civil date [y, m, d] of a day number since 1970-01-01.
CivilFromDays(z0) ==
  LET z   == z0 + 719468
      era == z \div 146097
      doe == z - era * 146097
      yoe == (doe - doe \div 1460 + doe \div 36524 - doe \div 146096) \div 365
      doy == doe - (365 * yoe + yoe \div 4 - yoe \div 100)
      mp  == (5 * doy + 2) \div 153
      d   == doy - (153 * mp + 2) \div 5 + 1
      m   == IF mp < 10 THEN mp + 3 ELSE mp - 9
      y   == yoe + era * 400 + (IF m <= 2 THEN 1 ELSE 0)
  IN  [y |-> y, m |-> m, d |-> d]

\* Day of the week of a day number: 0 is Sunday.
WeekDay(z) == (z + 4) % 7

\* Day number of the n-th Sunday of month m of year y.
NthSunday(y, m, n) ==
  LET first == DaysFromCivil(y, m, 1)
  IN  first + ((7 - WeekDay(first)) % 7) + 7 * (n - 1)

\* Offset from UTC, in seconds, of America/Los_Angeles at unix time ts.
LosAngelesOffset(ts) ==
  LET y        == CivilFromDays(ts \div SecondsPerDay).y
      dstStart == NthSunday(y, 3, 2) * SecondsPerDay + 10 * SecondsPerHour
      dstEnd   == NthSunday(y, 11, 1) * SecondsPerDay + 9 * SecondsPerHour
  IN  IF ts >= dstStart /\ ts < dstEnd
      THEN -7 * SecondsPerHour ELSE -8 * SecondsPerHour

\* pointMoment.date() for the moment whose instant is ts.
MomentDate(ts) == CivilFromDays((ts + LosAngelesOffset(ts)) \div SecondsPerDay).d

\* Mutation of getDateByUnixTs: the day is read before pointMoment is moved.
getDateByUnixTsStale(pm, unixTs) ==
  [pm |-> pm + (unixTs - pm), key |-> MomentDate(pm)]

\* getDateByUnixTs mutates the shared pointMoment and returns its day of the
\* month: pm is the instant of pointMoment before the call.
getDateByUnixTs(pm, unixTs) ==
  LET diff == unixTs - pm
      moved == pm + diff
  IN  [pm |-> moved, key |-> MomentDate(moved)]

(***************************************************************************)
(* getFirestoreCost                                                        *)
(***************************************************************************)
DEFAULT_COST_STANDARD_READ == Num(3, 10)

DEFAULT_COST_STANDARD_WRITE == Num(9, 10)

DEFAULT_COST_STANDARD_DELETE == Num(1, 10)

DEFAULT_COST_ENTERPRISE_READ_UNIT == Num(5, 100)

DEFAULT_COST_ENTERPRISE_WRITE_UNIT == Num(26, 100)

FREE_TIER_ENTERPRISE_DAILY_READ_UNITS == 50000

FREE_TIER_ENTERPRISE_DAILY_WRITE_UNITS == 40000

FREE_TIER_STANDARD_DAILY_READS == 50000

FREE_TIER_STANDARD_DAILY_WRITES == 20000

FREE_TIER_STANDARD_DAILY_DELETES == 20000

OPERATIONS_PER_MILLION == 1000000

FIRESTORE_MIN_PRICE == Num(1, 100)

FIRESTORE_MAX_PRICE == Num(5, 1)

\* perDay[key] += operations, after if (!perDay[key]) perDay[key] = 0.
\* perDay is a function from day keys to numbers; dt is what getDateByUnixTs
\* returned.
PaidOperationsPerDay(st, operations, dt) ==
  [st EXCEPT
     !.perDay = [k \in (DOMAIN st.perDay) \cup {dt.key} |->
                   IF k # dt.key THEN st.perDay[k]
                   ELSE IF k \in DOMAIN st.perDay /\ ~Falsy(st.perDay[k])
                        THEN Add(st.perDay[k], operations)
                        ELSE Add(Zero, operations)],
     !.pm = dt.pm]

\* The callback of db.points.forEach for one point: st holds the running
\* result, the perDay object and the instant of the shared pointMoment.
PaidOperationsPoint(point, isFreeTierDb, st) ==
  IF point.int64Value = StrZero THEN st
  ELSE IF ~isFreeTierDb
       THEN [st EXCEPT !.result = Add(st.result, parseInt(point.int64Value))]
       ELSE PaidOperationsPerDay(st, parseInt(point.int64Value),
                                 getDateByUnixTs(st.pm, point.seconds))

\* db.points.forEach from point i on.
RECURSIVE PaidOperationsPoints(_, _, _, _)
PaidOperationsPoints(points, i, isFreeTierDb, st) ==
  IF i > Len(points) THEN st
  ELSE PaidOperationsPoints(points, i + 1, isFreeTierDb,
                            PaidOperationsPoint(points[i], isFreeTierDb, st))

\* Mutation of PaidOverQuota: a day below the quota counts negatively.
RECURSIVE PaidOverQuotaUnfloored(_, _, _)
PaidOverQuotaUnfloored(perDay, keys, freeQuota) ==
  IF keys = {} THEN Zero
  ELSE LET k == CHOOSE x \in keys : \A z \in keys : x <= z
       IN  Add(Sub(perDay[k], Num(freeQuota, 1)),
               PaidOverQuotaUnfloored(perDay, keys \ {k}, freeQuota))

\* Mutation of PaidOverQuota: the quota a day leaves unused is carried over.
RECURSIVE PaidOverQuotaCarried(_, _, _)
PaidOverQuotaCarried(perDay, keys, freeQuota) ==
  IF keys = {} THEN Zero
  ELSE LET k == CHOOSE x \in keys : \A z \in keys : x <= z
       IN  MathMax(Zero, Add(Sub(perDay[k], Num(freeQuota, 1)),
                             PaidOverQuotaCarried(perDay, keys \ {k}, freeQuota)))

\* Object.values(perDay).forEach(dailyUsage => result += Math.max(0, dailyUsage - freeQuota))
RECURSIVE PaidOverQuota(_, _, _)
PaidOverQuota(perDay, keys, freeQuota) ==
  IF keys = {} THEN Zero
  ELSE LET k == CHOOSE x \in keys : \A z \in keys : x <= z
       IN  Add(MathMax(Zero, Sub(perDay[k], Num(freeQuota, 1))),
               PaidOverQuota(perDay, keys \ {k}, freeQuota))

\* Mutation of PaidOperationsReturn: the quota is taken off the total of
\* every database.
PaidOperationsReturnQuota(db, isFreeTierDb, freeQuota, ids, st) ==
  [ok |-> TRUE,
   v |-> IF isFreeTierDb
         THEN Add(st.result, PaidOverQuota(st.perDay, DOMAIN st.perDay, freeQuota))
         ELSE MathMax(Zero, Sub(st.result, Num(freeQuota, 1))),
   err |-> "", ids |-> ids, pm |-> st.pm]

\* calculatePaidOperations after the points loop, whose state is st: the free
\* quota is taken off, the label of the metric is read and result returned.
PaidOperationsReturn(db, isFreeTierDb, freeQuota, ids, st) ==
  IF ~StrictLabel(db.metric, "type").ok
  THEN [ok |-> FALSE, v |-> undefined, err |-> StrictLabel(db.metric, "type").err,
        ids |-> ids, pm |-> st.pm]
  ELSE [ok |-> TRUE,
        v |-> IF isFreeTierDb
              THEN Add(st.result, PaidOverQuota(st.perDay, DOMAIN st.perDay, freeQuota))
              ELSE st.result,
        err |-> "", ids |-> ids, pm |-> st.pm]

\* Mutation of calculatePaidOperations: a standard entry of an enterprise
\* database is aggregated like any other.
calculatePaidOperationsNoSkip(db, isEnterpriseRequest, freeQuota, freeTierDatabaseId, ids, pm) ==
  LET databaseId == StrictLabel(db.resource, "database_id")
  IN  IF ~databaseId.ok
      THEN [ok |-> FALSE, v |-> undefined, err |-> databaseId.err, ids |-> ids, pm |-> pm]
      ELSE PaidOperationsReturn(db, databaseId.v = freeTierDatabaseId, freeQuota,
             IF isEnterpriseRequest THEN ids \cup {databaseId.v} ELSE ids,
             PaidOperationsPoints(db.points, 1, databaseId.v = freeTierDatabaseId,
               [result |-> Zero, perDay |-> <<>>, pm |-> pm]))

\* calculatePaidOperations(db, isEnterpriseRequest, freeQuota), with the state
\* it closes over: ids is enterpriseDatabaseIds, pm the instant of pointMoment.
\* The result carries the returned number and the state after the call.
calculatePaidOperations(db, isEnterpriseRequest, freeQuota, freeTierDatabaseId, ids, pm) ==
  LET databaseId == StrictLabel(db.resource, "database_id")
  IN  IF ~databaseId.ok
      THEN [ok |-> FALSE, v |-> undefined, err |-> databaseId.err, ids |-> ids, pm |-> pm]
      ELSE IF ~isEnterpriseRequest /\ databaseId.v \in ids
      THEN [ok |-> TRUE, v |-> Zero, err |-> "", ids |-> ids, pm |-> pm]
      ELSE PaidOperationsReturn(db, databaseId.v = freeTierDatabaseId, freeQuota,
             IF isEnterpriseRequest THEN ids \cup {databaseId.v} ELSE ids,
             PaidOperationsPoints(db.points, 1, databaseId.v = freeTierDatabaseId,
               [result |-> Zero, perDay |-> <<>>, pm |-> pm]))

\* The callback of db.points.forEach in the earlier version of firestore.js
\* (part_003): a point is left out unless its value is "0".
PaidOperationsPointOld(point, isFreeTierDb, st) ==
  IF point.int64Value # StrZero THEN st
  ELSE IF ~isFreeTierDb
       THEN [st EXCEPT !.result = Add(st.result, parseInt(point.int64Value))]
       ELSE PaidOperationsPerDay(st, parseInt(point.int64Value),
                                 getDateByUnixTs(st.pm, point.seconds))

RECURSIVE PaidOperationsPointsOld(_, _, _, _)
PaidOperationsPointsOld(points, i, isFreeTierDb, st) ==
  IF i > Len(points) THEN st
  ELSE PaidOperationsPointsOld(points, i + 1, isFreeTierDb,
                               PaidOperationsPointOld(points[i], isFreeTierDb, st))

\* calculatePaidOperations of the earlier version of firestore.js: a standard
\* entry of an enterprise database returns undefined.
calculatePaidOperationsOld(db, isEnterpriseRequest, freeQuota, freeTierDatabaseId, ids, pm) ==
  LET databaseId == StrictLabel(db.resource, "database_id")
  IN  IF ~databaseId.ok
      THEN [ok |-> FALSE, v |-> undefined, err |-> databaseId.err, ids |-> ids, pm |-> pm]
      ELSE IF ~isEnterpriseRequest /\ databaseId.v \in ids
      THEN [ok |-> TRUE, v |-> undefined, err |-> "", ids |-> ids, pm |-> pm]
      ELSE PaidOperationsReturn(db, databaseId.v = freeTierDatabaseId, freeQuota,
             IF isEnterpriseRequest THEN ids \cup {databaseId.v} ELSE ids,
             PaidOperationsPointsOld(db.points, 1, databaseId.v = freeTierDatabaseId,
               [result |-> Zero, perDay |-> <<>>, pm |-> pm]))

\* total += calculatePaidOperations(db, ...): r is what the call returned.
PaidOperationsAdd(acc, r) ==
  [ok |-> r.ok, v |-> IF r.ok THEN Add(acc.v, r.v) ELSE undefined,
   err |-> r.err, ids |-> r.ids, pm |-> r.pm]

\* One data.forEach(db => total += calculatePaidOperations(db, ...)) loop from
\* entry i on; acc carries the total and the closed-over state.
RECURSIVE PaidOperationsLoop(_, _, _, _, _, _)
PaidOperationsLoop(data, i, isEnterpriseRequest, freeQuota, freeTierDatabaseId, acc) ==
  IF i > Len(data) \/ ~acc.ok THEN acc
  ELSE PaidOperationsLoop(data, i + 1, isEnterpriseRequest, freeQuota,
         freeTierDatabaseId,
         PaidOperationsAdd(acc,
           calculatePaidOperations(data[i], isEnterpriseRequest, freeQuota,
                                   freeTierDatabaseId, acc.ids, acc.pm)))

PaidOperationsTotal(data, isEnterpriseRequest, freeQuota, freeTierDatabaseId, ids, pm) ==
  PaidOperationsLoop(data, 1, isEnterpriseRequest, freeQuota, freeTierDatabaseId,
    [ok |-> TRUE, v |-> Zero, err |-> "", ids |-> ids, pm |-> pm])

\* The forEach loops of getFirestoreCost run in order over the shared state:
\* st holds the totals of the loops that have run (units, in the order
\* entReadUnits, entWriteUnits, totalStandardReads, totalStandardWrites,
\* totalStandardDeletes), enterpriseDatabaseIds and pointMoment.
FirestoreLoopDone(st, r) ==
  [ok |-> r.ok, err |-> r.err, units |-> Append(st.units, r.v),
   ids |-> r.ids, pm |-> r.pm]

RECURSIVE FirestoreLoops(_, _, _, _)
FirestoreLoops(loops, i, freeTierDatabaseId, st) ==
  IF i > Len(loops) \/ ~st.ok THEN st
  ELSE FirestoreLoops(loops, i + 1, freeTierDatabaseId,
         FirestoreLoopDone(st,
           PaidOperationsTotal(loops[i].data, loops[i].isEnterpriseRequest,
                               loops[i].freeQuota, freeTierDatabaseId,
                               st.ids, st.pm)))

\* getFirestoreCost from the resolution of the two enterprise requests up to
\* the await of the standard requests: the two enterprise loops.
FirestoreEnterprisePhase(enterpriseReadsData, enterpriseWritesData, env, now) ==
  FirestoreLoops(
    << [data |-> enterpriseReadsData, isEnterpriseRequest |-> TRUE,
        freeQuota |-> FREE_TIER_ENTERPRISE_DAILY_READ_UNITS],
       [data |-> enterpriseWritesData, isEnterpriseRequest |-> TRUE,
        freeQuota |-> FREE_TIER_ENTERPRISE_DAILY_WRITE_UNITS] >>,
    1, env.FIRESTORE_FREE_TIER_DATABASE_NAME,
    [ok |-> TRUE, err |-> "", units |-> <<>>, ids |-> {}, pm |-> now])

\* units / 1_000_000 * getPrice(customPrice, defaultPrice, 0.01, 5.0)
FirestoreCostTotal(units, customPrice, defaultPrice) ==
  Mul(Div(units, Num(OPERATIONS_PER_MILLION, 1)),
      getPrice(customPrice, defaultPrice, FIRESTORE_MIN_PRICE, FIRESTORE_MAX_PRICE))

\* if (!isFinite(totalCost)) throw ...; return totalCost
FirestoreCostChecked(totalCost) ==
  IF ~isFinite(totalCost)
  THEN Throw("Calculated Firestore cost is NaN/Infinite")
  ELSE Ok(totalCost)

\* The prices and the total of getFirestoreCost once its five loops have run.
FirestoreCost(st, env) ==
  IF ~st.ok THEN Throw(st.err)
  ELSE FirestoreCostChecked(
         Add(Add(Add(Add(
           FirestoreCostTotal(st.units[3], env.MONITOR_FIRESTORE_STD_READ_COST,
                              DEFAULT_COST_STANDARD_READ),
           FirestoreCostTotal(st.units[4], env.MONITOR_FIRESTORE_STD_WRITE_COST,
                              DEFAULT_COST_STANDARD_WRITE)),
           FirestoreCostTotal(st.units[5], env.MONITOR_FIRESTORE_STD_DELETE_COST,
                              DEFAULT_COST_STANDARD_DELETE)),
           FirestoreCostTotal(st.units[1], env.MONITOR_FIRESTORE_ENT_READ_UNIT_COST,
                              DEFAULT_COST_ENTERPRISE_READ_UNIT)),
           FirestoreCostTotal(st.units[2], env.MONITOR_FIRESTORE_ENT_WRITE_UNIT_COST,
                              DEFAULT_COST_ENTERPRISE_WRITE_UNIT)))

\* getFirestoreCost from the resolution of the three standard requests to its
\* return: the three standard loops, the prices and the total.
FirestoreStandardPhase(ent, standardReadsData, standardWritesData, standardDeletesData, env) ==
  FirestoreCost(
    FirestoreLoops(
      << [data |-> standardReadsData, isEnterpriseRequest |-> FALSE,
          freeQuota |-> FREE_TIER_STANDARD_DAILY_READS],
         [data |-> standardWritesData, isEnterpriseRequest |-> FALSE,
          freeQuota |-> FREE_TIER_STANDARD_DAILY_WRITES],
         [data |-> standardDeletesData, isEnterpriseRequest |-> FALSE,
          freeQuota |-> FREE_TIER_STANDARD_DAILY_DELETES] >>,
      1, env.FIRESTORE_FREE_TIER_DATABASE_NAME, ent),
    env)

(***************************************************************************)
(* Usage sums of getHostingCost, getStorageCost and getCloudFunctionsCost  *)
(***************************************************************************)
\* Mutation of SumInt64Points: a negative value is added like any other.
RECURSIVE SumInt64PointsSigned(_, _, _)
SumInt64PointsSigned(points, i, acc) ==
  IF i > Len(points) THEN Ok(acc)
  ELSE IF points[i].int64Value = StrZero THEN SumInt64PointsSigned(points, i + 1, acc)
  ELSE LET parsed == parseInt(points[i].int64Value)
       IN  IF ~isFinite(parsed) THEN Throw("Invalid count - NaN/Infinite")
           ELSE SumInt64PointsSigned(points, i + 1, Add(acc, parsed))

\* entry.points.forEach over an int64 metric, from point i on: zero points
\* are skipped, a value that is not finite or is negative throws.
RECURSIVE SumInt64Points(_, _, _)
SumInt64Points(points, i, acc) ==
  IF i > Len(points) THEN Ok(acc)
  ELSE IF points[i].int64Value = StrZero THEN SumInt64Points(points, i + 1, acc)
  ELSE LET parsed == parseInt(points[i].int64Value)
       IN  IF ~isFinite(parsed) THEN Throw("Invalid count - NaN/Infinite")
           ELSE IF Lt(parsed, Zero) THEN Throw("Invalid count - must be greater than 0")
           ELSE SumInt64Points(points, i + 1, Add(acc, parsed))

\* entry.points.forEach over a double metric, from point i on.
RECURSIVE SumDoublePoints(_, _, _)
SumDoublePoints(points, i, acc) ==
  IF i > Len(points) THEN Ok(acc)
  ELSE IF points[i].doubleValue = StrZero THEN SumDoublePoints(points, i + 1, acc)
  ELSE LET parsed == parseFloat(points[i].doubleValue)
       IN  IF ~isFinite(parsed) THEN Throw("Invalid seconds - NaN/Infinite")
           ELSE IF Lt(parsed, Zero) THEN Throw("Invalid seconds - must be greater than 0")
           ELSE SumDoublePoints(points, i + 1, Add(acc, parsed))

\* response.forEach(entry => total += sum of the entry's points), from entry i.
RECURSIVE SumEntries(_, _, _, _)
SumEntries(response, i, isDouble, acc) ==
  IF i > Len(response) THEN Ok(acc)
  ELSE LET e == IF isDouble THEN SumDoublePoints(response[i].points, 1, Zero)
                ELSE SumInt64Points(response[i].points, 1, Zero)
       IN  IF ~e.ok THEN e
           ELSE SumEntries(response, i + 1, isDouble, Add(acc, e.v))

(***************************************************************************)
(* getHostingCost                                                          *)
(***************************************************************************)
\* One GiB, in model bytes (MiB): 1024 * 1024 * 1024 bytes in the code.
BYTES_PER_GB == 1024

DEFAULT_HOSTING_BANDWIDTH_COST == Num(15, 100)

HOSTING_MIN_PRICE == Num(1, 100)

HOSTING_MAX_PRICE == Num(5, 1)

\* The inline price block of getHostingCost.  Its catch block evaluates the
\* undeclared identifier defaultPrice, so an invalid price throws a
\* ReferenceError out of getHostingCost.
HostingPrice(customPriceString) ==
  LET customPrice == parseFloat(customPriceString)
  IN  IF \/ ~isFinite(customPrice)
         \/ Lt(customPrice, Zero)
         \/ Lt(customPrice, HOSTING_MIN_PRICE)
         \/ Gt(customPrice, HOSTING_MAX_PRICE)
      THEN Throw("ReferenceError: defaultPrice is not defined")
      ELSE Ok(customPrice)

\* getHostingCost after the response of listTimeSeries has arrived.
getHostingCost(hostingResponse, env) ==
  LET price == HostingPrice(env.MONITOR_HOSTING_BANDWIDTH_COST)
      totalBytes == SumEntries(hostingResponse, 1, FALSE, Zero)
  IN  IF ~price.ok THEN price
      ELSE IF ~totalBytes.ok THEN totalBytes
      ELSE Ok(Mul(Div(totalBytes.v, Num(BYTES_PER_GB, 1)), price.v))

(***************************************************************************)
(* getStorageCost                                                          *)
(***************************************************************************)
DEFAULT_STORAGE_BANDWIDTH_COST == Num(12, 100)

\* 100 GB free quota
FREE_BANDWIDTH_QUOTA_BYTES == 100 * BYTES_PER_GB

STORAGE_MIN_PRICE == Num(1, 100)

STORAGE_MAX_PRICE == Num(5, 1)

QuotaRegions ==
  { Str(<<"u", "s", "-", "c", "e", "n", "t", "r", "a", "l", "1">>),
    Str(<<"u", "s", "-", "w", "e", "s", "t", "1">>),
    Str(<<"u", "s", "-", "e", "a", "s", "t", "1">>) }

\* egressResponse.forEach from bucket i on; acc holds egressBytesQuotaRegions
\* (q) and egressBytesOtherRegions (o).
RECURSIVE StorageBuckets(_, _, _)
StorageBuckets(egressResponse, i, acc) ==
  IF i > Len(egressResponse) THEN acc
  ELSE LET entryBytes == SumInt64Points(egressResponse[i].points, 1, Zero)
           location == OptLabel(egressResponse[i].resource, "location")
           quotaRegion == location \in QuotaRegions
       IN  IF ~entryBytes.ok
           THEN [ok |-> FALSE, err |-> entryBytes.err, q |-> acc.q, o |-> acc.o]
           ELSE StorageBuckets(egressResponse, i + 1,
                  IF quotaRegion
                  THEN [acc EXCEPT !.q = Add(acc.q, entryBytes.v)]
                  ELSE [acc EXCEPT !.o = Add(acc.o, entryBytes.v)])

\* Mutation of getStorageCost: the free quota is taken off the bytes of every
\* region.
getStorageCostQuotaOnAll(egressResponse, env) ==
  LET b == StorageBuckets(egressResponse, 1,
             [ok |-> TRUE, err |-> "", q |-> Zero, o |-> Zero])
      price == getPrice(env.MONITOR_STORAGE_BANDWIDTH_COST,
                 DEFAULT_STORAGE_BANDWIDTH_COST, STORAGE_MIN_PRICE, STORAGE_MAX_PRICE)
      billableEgressBytes ==
        MathMax(Zero, Sub(Add(b.q, b.o), Num(FREE_BANDWIDTH_QUOTA_BYTES, 1)))
      totalGB == Div(billableEgressBytes, Num(BYTES_PER_GB, 1))
  IN  IF ~b.ok THEN Throw(b.err) ELSE Ok(Mul(totalGB, price))

\* getStorageCost after the response of listTimeSeries has arrived.
getStorageCost(egressResponse, env) ==
  LET b == StorageBuckets(egressResponse, 1,
             [ok |-> TRUE, err |-> "", q |-> Zero, o |-> Zero])
      price == getPrice(env.MONITOR_STORAGE_BANDWIDTH_COST,
                 DEFAULT_STORAGE_BANDWIDTH_COST, STORAGE_MIN_PRICE, STORAGE_MAX_PRICE)
      quotaOvershootBytes ==
        MathMax(Zero, Sub(b.q, Num(FREE_BANDWIDTH_QUOTA_BYTES, 1)))
      billableEgressBytes == Add(quotaOvershootBytes, b.o)
      totalGB == Div(billableEgressBytes, Num(BYTES_PER_GB, 1))
  IN  IF ~b.ok THEN Throw(b.err) ELSE Ok(Mul(totalGB, price))

(***************************************************************************)
(* getCloudFunctionsCost                                                   *)
(***************************************************************************)
FREE_CPU_SECONDS_PER_MONTH == 200000

FREE_MEMORY_GB_SECONDS_PER_MONTH == 400000

\* 5 GB
FREE_NETWORK_EGRESS_BYTES_PER_MONTH == 5 * BYTES_PER_GB

FREE_REQUESTS_PER_MONTH == 2000000

DEFAULT_CPU_SECOND_COST == Num(24, 1000000)

DEFAULT_MEMORY_GB_SECOND_COST == Num(25, 10000000)

DEFAULT_EGRESS_BANDWIDTH_COST == Num(12, 100)

DEFAULT_REQUEST_COST == Num(4, 10)

CPU_MIN_PRICE == Num(1, 1000000)

CPU_MAX_PRICE == Num(1, 10)

MEMORY_MIN_PRICE == Num(1, 1000000)

MEMORY_MAX_PRICE == Num(1, 10)

EGRESS_MIN_PRICE == Num(1, 100)

EGRESS_MAX_PRICE == Num(5, 1)

REQUEST_MIN_PRICE == Num(1, 100)

REQUEST_MAX_PRICE == Num(5, 1)

\* getCloudFunctionsCost after the four responses have arrived.
getCloudFunctionsCost(cpuResult, memResult, netResult, reqResult, env) ==
  LET cpuSecondsV2 == SumEntries(cpuResult, 1, TRUE, Zero)
      memGbSecondsV2 == SumEntries(memResult, 1, TRUE, Zero)
      neworkEgreessBytesV2 == SumEntries(netResult, 1, FALSE, Zero)
      requestCount == SumEntries(reqResult, 1, FALSE, Zero)
      cpuPrice == getPrice(env.MONITOR_CLOUD_FUNCTIONS_CPU_SECOND_COST,
                    DEFAULT_CPU_SECOND_COST, CPU_MIN_PRICE, CPU_MAX_PRICE)
      memPrice == getPrice(env.MONITOR_CLOUD_FUNCTIONS_MEMORY_GB_SECOND_COST,
                    DEFAULT_MEMORY_GB_SECOND_COST, MEMORY_MIN_PRICE, MEMORY_MAX_PRICE)
      netPrice == getPrice(env.MONITOR_CLOUD_FUNCTIONS_EGRESS_BANDWIDTH_COST,
                    DEFAULT_EGRESS_BANDWIDTH_COST, EGRESS_MIN_PRICE, EGRESS_MAX_PRICE)
      reqPrice == getPrice(env.MONITOR_CLOUD_FUNCTIONS_REQUEST_COST,
                    DEFAULT_REQUEST_COST, REQUEST_MIN_PRICE, REQUEST_MAX_PRICE)
      paidCpuSecondsV2 ==
        MathMax(Zero, Sub(cpuSecondsV2.v, Num(FREE_CPU_SECONDS_PER_MONTH, 1)))
      paidMemGbSecondsV2 ==
        MathMax(Zero, Sub(memGbSecondsV2.v, Num(FREE_MEMORY_GB_SECONDS_PER_MONTH, 1)))
      paidNetworkEgressBytesV2 ==
        MathMax(Zero, Sub(neworkEgreessBytesV2.v,
                          Num(FREE_NETWORK_EGRESS_BYTES_PER_MONTH, 1)))
      paidRequestCount ==
        MathMax(Zero, Sub(requestCount.v, Num(FREE_REQUESTS_PER_MONTH, 1)))
      cpuCost == Mul(paidCpuSecondsV2, cpuPrice)
      memCost == Mul(paidMemGbSecondsV2, memPrice)
      paidEgressGb == Div(paidNetworkEgressBytesV2, Num(BYTES_PER_GB, 1))
      netCost == Mul(paidEgressGb, netPrice)
      requestMillions == Div(paidRequestCount, Num(OPERATIONS_PER_MILLION, 1))
      requestCost == Mul(requestMillions, reqPrice)
  IN  IF ~cpuSecondsV2.ok THEN cpuSecondsV2
      ELSE IF ~memGbSecondsV2.ok THEN memGbSecondsV2
      ELSE IF ~neworkEgreessBytesV2.ok THEN neworkEgreessBytesV2
      ELSE IF ~requestCount.ok THEN requestCount
      ELSE Ok(Add(Add(Add(cpuCost, memCost), netCost), requestCost))

(***************************************************************************)
(* fetchBudget                                                             *)
(***************************************************************************)
USD == Str(<<"U", "S", "D">>)

NANOS_PER_UNIT == 1000000000

\* Mutation of BudgetIdInvalid: the length is not checked.
BudgetIdNotString(budgetId) == budgetId.t # "string"

\* typeof budgetId !== "string" || budgetId.length === 0
BudgetIdInvalid(budgetId) == budgetId.t # "string" \/ Len(budgetId.s) = 0

\* Mutation of CurrencyUnsupported: the currency is not checked.
CurrencyNeverUnsupported(currency) == FALSE

\* currency !== "USD"
CurrencyUnsupported(currency) == currency # USD

\* primaryUnits + nanoUnits / 1_000_000_000
BudgetAmountOf(specifiedAmount) ==
  LET primaryUnits == parseFloat(specifiedAmount.units)
      nanoUnits == parseFloat(specifiedAmount.nanos)
  IN  Add(primaryUnits, Div(nanoUnits, Num(NANOS_PER_UNIT, 1)))

\* Mutation of BudgetAmountInvalid: budgetAmount < 0, a zero budget passes.
BudgetAmountInvalidIfNegative(budgetAmount) ==
  ~isFinite(budgetAmount) \/ Lt(budgetAmount, Zero)

\* !isFinite(budgetAmount) || budgetAmount <= 0
BudgetAmountInvalid(budgetAmount) ==
  ~isFinite(budgetAmount) \/ Le(budgetAmount, Zero)

\* fetchBudget from the resolution of getBudget to its return: data is
\* budgetData?.amount?.specifiedAmount with its three fields, each undefined
\* when absent.
fetchBudgetResult(data) ==
  IF CurrencyUnsupported(data.currencyCode)
  THEN Throw("Budget currency is not in USD")
  ELSE IF BudgetAmountInvalid(BudgetAmountOf(data))
  THEN Throw("Budget amount is not valid")
  ELSE Ok(BudgetAmountOf(data))

(***************************************************************************)
(* Inputs: the environment of the deployment and the responses that the    *)
(* billing, budget and monitoring connectors may give.                     *)
(***************************************************************************)
STRUE == Str(<<"t", "r", "u", "e">>)

STEST == Str(<<"t", "e", "s", "t">>)

SFALSE == Str(<<"f", "a", "l", "s", "e">>)

DbDefault == Str(<<"(", "d", "e", "f", "a", "u", "l", "t", ")">>)

DbOther == Str(<<"d", "b", "2">>)

\* Unix times: the run (2026-11-03 17:44 in Los Angeles) and noon of the first
\* two days of that month in Los Angeles.
NowTs == 1793756640

Day1Ts == 1793563200

Day2Ts == 1793649600

BaseEnv ==
  [ MONITORING_ENABLED |-> undefined,
    MONITOR_BUDGET_ID |-> undefined,
    FIRESTORE_FREE_TIER_DATABASE_NAME |-> DbDefault,
    MONITOR_HOSTING_BANDWIDTH_COST |-> undefined,
    MONITOR_STORAGE_BANDWIDTH_COST |-> Str(<<"0", ".", "5">>),
    MONITOR_FIRESTORE_ENT_READ_UNIT_COST |-> undefined,
    MONITOR_FIRESTORE_ENT_WRITE_UNIT_COST |-> undefined,
    MONITOR_FIRESTORE_STD_READ_COST |-> undefined,
    MONITOR_FIRESTORE_STD_WRITE_COST |-> Str(<<"1">>),
    MONITOR_FIRESTORE_STD_DELETE_COST |-> undefined,
    MONITOR_CLOUD_FUNCTIONS_CPU_SECOND_COST |-> undefined,
    MONITOR_CLOUD_FUNCTIONS_MEMORY_GB_SECOND_COST |-> undefined,
    MONITOR_CLOUD_FUNCTIONS_EGRESS_BANDWIDTH_COST |-> undefined,
    MONITOR_CLOUD_FUNCTIONS_REQUEST_COST |-> Str(<<"x">>) ]

\* The deployments: monitoring off, on and in test mode with a valid
\* configuration, and monitoring on with a budget id or a hosting price that
\* is unset or empty.
ValidEnv ==
  [BaseEnv EXCEPT !.MONITOR_BUDGET_ID = Str(<<"b", "1">>),
                  !.MONITOR_HOSTING_BANDWIDTH_COST = Str(<<"0", ".", "5">>)]

Envs ==
  { [ValidEnv EXCEPT !.MONITORING_ENABLED = m] :
      m \in {undefined, SFALSE, STRUE, STEST} }
  \cup
  { [ValidEnv EXCEPT !.MONITORING_ENABLED = STRUE, !.MONITOR_BUDGET_ID = b] :
      b \in {undefined, Str(<<>>)} }
  \cup
  { [ValidEnv EXCEPT !.MONITORING_ENABLED = STRUE,
                     !.MONITOR_HOSTING_BANDWIDTH_COST = undefined] }

\* budgetData?.amount?.specifiedAmount of the budgets the connector may return.
BudgetResponses ==
  { [currencyCode |-> USD, units |-> Str(<<"1">>), nanos |-> Num(0, 1)],
    [currencyCode |-> USD, units |-> Str(<<"1">>), nanos |-> Num(500000000, 1)],
    [currencyCode |-> USD, units |-> Str(<<"0">>), nanos |-> Num(0, 1)],
    [currencyCode |-> Str(<<"E", "U", "R">>), units |-> Str(<<"1">>), nanos |-> Num(0, 1)],
    [currencyCode |-> undefined, units |-> undefined, nanos |-> undefined] }

\* A point of an int64 metric and a point of a double metric.
IntPoint(ts, chars) ==
  [seconds |-> ts, int64Value |-> Str(chars), doubleValue |-> undefined]

DoublePoint(ts, n) ==
  [seconds |-> ts, int64Value |-> undefined, doubleValue |-> Num(n, 1)]

Entry(resourceLabels, metricLabels, points) ==
  [resource |-> Labelled(resourceLabels), metric |-> Labelled(metricLabels),
   points |-> points]

DbEntry(db, points) == Entry([database_id |-> db], [type |-> Str(<<"Q">>)], points)

Million == <<"1", "0", "0", "0", "0", "0", "0">>

\* Responses of the enterprise read units and write units metrics.
EnterpriseReadsResponses ==
  { <<>>,
    <<DbEntry(DbOther, <<IntPoint(Day1Ts, Million)>>)>> }

EnterpriseWritesResponses == { <<>> }

\* Responses of the standard reads, writes and deletes metrics.
StandardReadsResponses ==
  { <<>>,
    <<DbEntry(DbOther, <<IntPoint(Day1Ts, <<"5", "0", "0", "0", "0", "0">>)>>)>>,
    <<DbEntry(DbDefault, <<IntPoint(Day1Ts, <<"5", "0", "0", "0">>),
                           IntPoint(Day2Ts, <<"6", "0", "0", "0", "0">>)>>)>> }

StandardWritesResponses ==
  { <<>>,
    <<DbEntry(DbOther, <<IntPoint(Day1Ts, <<"5", "0", "0", "0", "0", "0">>)>>)>> }

StandardDeletesResponses == { <<>> }

SiteEntry(points) ==
  Entry([site_name |-> Str(<<"s">>)], [k |-> Str(<<"v">>)], points)

HostingResponses ==
  { <<>>,
    <<SiteEntry(<<IntPoint(Day1Ts, <<"1", "0", "2", "4">>),
                  IntPoint(Day1Ts, <<"0">>),
                  IntPoint(Day2Ts, <<"1", "0", "2", "4">>)>>)>>,
    <<SiteEntry(<<IntPoint(Day1Ts, <<"-", "5">>)>>)>> }

BucketEntry(location, points) ==
  Entry([bucket_name |-> Str(<<"b">>), location |-> location],
        [k |-> Str(<<"v">>)], points)

StorageResponses ==
  { <<>>,
    <<BucketEntry(Str(<<"e", "u">>), <<IntPoint(Day1Ts, <<"1", "0", "2", "4">>)>>),
      BucketEntry(Str(<<"u", "s", "-", "e", "a", "s", "t", "1">>),
                  <<IntPoint(Day1Ts, <<"2", "0", "4", "8">>)>>)>>,
    <<BucketEntry(Str(<<"e", "u">>), <<IntPoint(Day1Ts, <<"N", "a", "N">>)>>)>> }

RevisionEntry(points) ==
  Entry([service_name |-> Str(<<"f">>), revision_name |-> Str(<<"r">>)],
        [k |-> Str(<<"v">>)], points)

\* Responses of the four Cloud Run metrics: <<cpu, memory, egress, requests>>.
FunctionsResponses ==
  { << <<>>, <<>>, <<>>, <<>> >>,
    << <<RevisionEntry(<<DoublePoint(Day1Ts, 100)>>)>>,
       <<RevisionEntry(<<DoublePoint(Day1Ts, 50)>>)>>,
       <<RevisionEntry(<<IntPoint(Day1Ts, <<"1", "0", "2", "4">>)>>)>>,
       <<RevisionEntry(<<IntPoint(Day1Ts, <<"3", "0", "0", "0", "0", "0", "0">>)>>)>> >>,
    << <<RevisionEntry(<<DoublePoint(Day1Ts, -1)>>)>>, <<>>, <<>>, <<>> >> }

(***************************************************************************)
(* monitorUsage: one run of the monitor.                                   *)
(*                                                                         *)
(* pc is the position of monitorUsage: "entry" before the call,            *)
(* "await_all" at the await of Promise.all, "await_disable" at the await   *)
(* of executeDisable, "returned" after a return and "threw" after an       *)
(* exception left it.  promise[t] is the promise of each of the five       *)
(* concurrent calls.  calls counts the requests made to the connectors     *)
(* and the invocations of executeDisable.  call and result hold the        *)
(* arguments and the result of a single function in the specifications     *)
(* that exercise one function on its own; result also holds what           *)
(* monitorUsage returned once it has returned.                             *)
(***************************************************************************)
VARIABLES env, pc, outcome, promise, budgetPc, budgetData, firestoreEnt,
          totalCost, budgetAmount, calls,
          call, result

runVars == <<env, pc, outcome, promise, budgetPc, budgetData, firestoreEnt,
             totalCost, budgetAmount, calls>>

callVars == <<call, result>>

vars == <<runVars, callVars>>

Tasks == {"budget", "firestore", "hosting", "storage", "functions"}

Calculators == Tasks \ {"budget"}

Idle == [st |-> "idle", v |-> undefined]

Pending == [st |-> "pending", v |-> undefined]

\* The promise of an async function that completed with result r.
Settled(r) ==
  IF r.ok THEN [st |-> "fulfilled", v |-> r.v] ELSE [st |-> "rejected", v |-> undefined]

NoCalls ==
  [getProjectBillingInfo |-> 0, getBudget |-> 0, listTimeSeries |-> 0,
   executeDisable |-> 0]

NoEnterprise == [ok |-> TRUE, err |-> "", units |-> <<>>, ids |-> {}, pm |-> 0]

\* Mutation of MonitoringDisabled: only an explicit "false" disables.
MonitoringDisabledOnlyFalse(e) == e.MONITORING_ENABLED = SFALSE

\* MONITORING_ENABLED !== "true" && MONITORING_ENABLED !== "test"
MonitoringDisabled(e) ==
  e.MONITORING_ENABLED # STRUE /\ e.MONITORING_ENABLED # STEST

\* Mutation of TestMode: the mode is not looked at.
TestModeNever(e) == FALSE

\* MONITORING_ENABLED === "test"
TestMode(e) == e.MONITORING_ENABLED = STEST

\* Mutation of AllFulfilled: Promise.allSettled, no promise is pending.
AllSettled(p) == \A t \in {"budget", "firestore", "hosting", "storage", "functions"} :
  p[t].st \in {"fulfilled", "rejected"}

\* Mutation of AllFulfilled: only the budget is awaited.
BudgetFulfilled(p) == p["budget"].st = "fulfilled"

\* Promise.all resolves when every promise is fulfilled ...
AllFulfilled(p) == \A t \in Tasks : p[t].st = "fulfilled"

\* ... and rejects as soon as one of them is rejected.
AnyRejected(p) == \E t \in Tasks : p[t].st = "rejected"

\* Mutation of TotalCostOf: storageCost is left out of the sum.
TotalCostWithoutStorage(p) ==
  Add(Add(p["firestore"].v, p["hosting"].v), p["functions"].v)

\* firestoreCost + hostingCost + storageCost + cloudRunCost
TotalCostOf(p) ==
  Add(Add(Add(p["firestore"].v, p["hosting"].v), p["storage"].v), p["functions"].v)

\* Mutation of WithinBudget: totalCost < budgetAmount.
WithinBudgetStrict(total, budget) == Lt(total, budget)

\* totalCost <= budgetAmount
WithinBudget(total, budget) == Le(total, budget)

\* Number of listTimeSeries requests the four calculators issue when called:
\* five by getFirestoreCost, one by getHostingCost, one by getStorageCost and
\* four by getCloudFunctionsCost.
RequestsIssued == 5 + 1 + 1 + 4

\* The state before monitorUsage is called.
RunFresh ==
  /\ pc = "entry"
  /\ outcome = "none"
  /\ promise = [t \in Tasks |-> Idle]
  /\ budgetPc = "idle"
  /\ budgetData = undefined
  /\ firestoreEnt = NoEnterprise
  /\ totalCost = undefined
  /\ budgetAmount = undefined
  /\ calls = NoCalls

RunInit == env \in Envs /\ RunFresh

\* call and result are used by the specifications of single functions below.
NoCall == [fn |-> "none"]

NotReturned == [ok |-> FALSE, v |-> undefined, err |-> "not returned"]

Init == RunInit /\ call = NoCall /\ result = NotReturned

\* monitorUsage is called with monitoring disabled: it returns at once.  Every
\* return of monitorUsage is a bare return or the end of its body: result, the
\* value of the call, is undefined.
MonitorDisabled ==
  /\ pc = "entry"
  /\ MonitoringDisabled(env)
  /\ pc' = "returned"
  /\ outcome' = "disabled"
  /\ result' = Ok(undefined)
  /\ UNCHANGED <<env, promise, budgetPc, budgetData, firestoreEnt, totalCost,
                 budgetAmount, calls, call>>

\* monitorUsage is called with monitoring enabled: it calls fetchBudget and
\* the four calculators, each of which runs up to its first await, and then
\* awaits Promise.all of the five promises.
MonitorStart ==
  /\ pc = "entry"
  /\ ~MonitoringDisabled(env)
  /\ promise' = [t \in Tasks |-> Pending]
  /\ budgetPc' = "getProjectBillingInfo"
  /\ calls' = [calls EXCEPT !.getProjectBillingInfo = @ + 1,
                            !.listTimeSeries = @ + RequestsIssued]
  /\ pc' = "await_all"
  /\ UNCHANGED <<env, outcome, budgetData, firestoreEnt, totalCost,
                 budgetAmount, callVars>>

\* fetchBudget: getProjectBillingInfo resolves; the budget id is checked and
\* getBudget is requested.
BillingInfoResolve ==
  /\ budgetPc = "getProjectBillingInfo"
  /\ IF BudgetIdInvalid(env.MONITOR_BUDGET_ID)
     THEN /\ budgetPc' = "done"
          /\ promise' = [promise EXCEPT !["budget"] =
                           Settled(Throw("The budget ID is not set or invalid"))]
          /\ calls' = calls
     ELSE /\ budgetPc' = "getBudget"
          /\ promise' = promise
          /\ calls' = [calls EXCEPT !.getBudget = @ + 1]
  /\ UNCHANGED <<env, pc, outcome, budgetData, firestoreEnt, totalCost,
                 budgetAmount, callVars>>

\* fetchBudget: getBudget resolves with a budget; currency and amount are
\* validated and fetchBudget returns or throws.
GetBudgetResolve ==
  /\ budgetPc = "getBudget"
  /\ \E data \in BudgetResponses :
       /\ budgetData' = data
       /\ promise' = [promise EXCEPT !["budget"] = Settled(fetchBudgetResult(data))]
  /\ budgetPc' = "done"
  /\ UNCHANGED <<env, pc, outcome, firestoreEnt, totalCost, budgetAmount,
                 calls, callVars>>

\* fetchBudget: a request to the billing or budget connector fails.
BudgetConnectorError ==
  /\ budgetPc \in {"getProjectBillingInfo", "getBudget"}
  /\ budgetPc' = "done"
  /\ promise' = [promise EXCEPT !["budget"] = Settled(Throw("connector"))]
  /\ UNCHANGED <<env, pc, outcome, budgetData, firestoreEnt, totalCost,
                 budgetAmount, calls, callVars>>

\* getFirestoreCost: both enterprise requests have resolved; the enterprise
\* entries are processed and the standard requests are awaited.
FirestoreEnterprise ==
  /\ promise["firestore"].st = "pending"
  /\ firestoreEnt.pm = 0
  /\ \E reads \in EnterpriseReadsResponses, writes \in EnterpriseWritesResponses :
       \E ent \in {FirestoreEnterprisePhase(reads, writes, env, NowTs)} :
         IF ent.ok
         THEN /\ firestoreEnt' = ent
              /\ promise' = promise
         ELSE /\ firestoreEnt' = firestoreEnt
              /\ promise' = [promise EXCEPT !["firestore"] = Settled(Throw(ent.err))]
  /\ UNCHANGED <<env, pc, outcome, budgetPc, budgetData, totalCost,
                 budgetAmount, calls, callVars>>

\* getFirestoreCost: the three standard requests have resolved; the standard
\* entries are processed and the cost is returned.
FirestoreStandard ==
  /\ promise["firestore"].st = "pending"
  /\ firestoreEnt.pm # 0
  /\ \E reads \in StandardReadsResponses, writes \in StandardWritesResponses,
        deletes \in StandardDeletesResponses :
       promise' = [promise EXCEPT !["firestore"] =
         Settled(FirestoreStandardPhase(firestoreEnt, reads, writes, deletes, env))]
  /\ UNCHANGED <<env, pc, outcome, budgetPc, budgetData, firestoreEnt,
                 totalCost, budgetAmount, calls, callVars>>

\* getHostingCost: its request has resolved.
HostingResolve ==
  /\ promise["hosting"].st = "pending"
  /\ \E response \in HostingResponses :
       promise' = [promise EXCEPT !["hosting"] = Settled(getHostingCost(response, env))]
  /\ UNCHANGED <<env, pc, outcome, budgetPc, budgetData, firestoreEnt,
                 totalCost, budgetAmount, calls, callVars>>

\* getStorageCost: its request has resolved.
StorageResolve ==
  /\ promise["storage"].st = "pending"
  /\ \E response \in StorageResponses :
       promise' = [promise EXCEPT !["storage"] = Settled(getStorageCost(response, env))]
  /\ UNCHANGED <<env, pc, outcome, budgetPc, budgetData, firestoreEnt,
                 totalCost, budgetAmount, calls, callVars>>

\* getCloudFunctionsCost: its four requests have resolved.
FunctionsResolve ==
  /\ promise["functions"].st = "pending"
  /\ \E r \in FunctionsResponses :
       promise' = [promise EXCEPT !["functions"] =
         Settled(getCloudFunctionsCost(r[1], r[2], r[3], r[4], env))]
  /\ UNCHANGED <<env, pc, outcome, budgetPc, budgetData, firestoreEnt,
                 totalCost, budgetAmount, calls, callVars>>

\* A listTimeSeries request of a calculator fails: the calculator rejects.
MetricsConnectorError ==
  /\ \E t \in Calculators :
       /\ promise[t].st = "pending"
       /\ promise' = [promise EXCEPT ![t] = Settled(Throw("connector"))]
  /\ UNCHANGED <<env, pc, outcome, budgetPc, budgetData, firestoreEnt,
                 totalCost, budgetAmount, calls, callVars>>

\* Promise.all has rejected: the exception leaves monitorUsage.
MonitorReject ==
  /\ pc = "await_all"
  /\ AnyRejected(promise)
  /\ pc' = "threw"
  /\ outcome' = "failed"
  /\ UNCHANGED <<env, promise, budgetPc, budgetData, firestoreEnt, totalCost,
                 budgetAmount, calls, callVars>>

\* Promise.all has resolved: the total is compared with the budget.
MonitorDecide ==
  /\ pc = "await_all"
  /\ AllFulfilled(promise)
  /\ budgetAmount' = promise["budget"].v
  /\ totalCost' = TotalCostOf(promise)
  /\ IF WithinBudget(totalCost', budgetAmount')
     THEN /\ pc' = "returned"
          /\ outcome' = "within"
          /\ calls' = calls
          /\ result' = Ok(undefined)
     ELSE IF TestMode(env)
     THEN /\ pc' = "returned"
          /\ outcome' = "breach_logged"
          /\ calls' = calls
          /\ result' = Ok(undefined)
     ELSE /\ pc' = "await_disable"
          /\ outcome' = outcome
          /\ calls' = [calls EXCEPT !.executeDisable = @ + 1]
          /\ result' = result
  /\ UNCHANGED <<env, promise, budgetPc, budgetData, firestoreEnt, call>>

\* executeDisable resolves: monitorUsage logs and returns.
DisableResolve ==
  /\ pc = "await_disable"
  /\ pc' = "returned"
  /\ outcome' = "disable_executed"
  /\ result' = Ok(undefined)
  /\ UNCHANGED <<env, promise, budgetPc, budgetData, firestoreEnt, totalCost,
                 budgetAmount, calls, call>>

\* executeDisable rejects: the exception leaves monitorUsage.
DisableReject ==
  /\ pc = "await_disable"
  /\ pc' = "threw"
  /\ outcome' = "failed"
  /\ UNCHANGED <<env, promise, budgetPc, budgetData, firestoreEnt, totalCost,
                 budgetAmount, calls, callVars>>

Next ==
  \/ MonitorDisabled
  \/ MonitorStart
  \/ BillingInfoResolve
  \/ GetBudgetResolve
  \/ BudgetConnectorError
  \/ FirestoreEnterprise
  \/ FirestoreStandard
  \/ HostingResolve
  \/ StorageResolve
  \/ FunctionsResolve
  \/ MetricsConnectorError
  \/ MonitorReject
  \/ MonitorDecide
  \/ DisableResolve
  \/ DisableReject

Spec == Init /\ [][Next]_vars

(***************************************************************************)
(* getPrice on its own: every call site of getPrice with every raw         *)
(* configuration value up to MaxPriceLen characters.                       *)
(***************************************************************************)
MaxPriceLen == 3

PriceChars == {"0", "1", "5", ".", "-", " ", "x"}

\* Prices written with an exponent.
ExponentPrices ==
  { Str(<<"1", "e", "-", "3">>), Str(<<"5", "e", "0">>), Str(<<"1", "e", "5">>),
    Str(<<"2", "5", "E", "-", "7">>) }

RECURSIVE StringsUpTo(_, _)
StringsUpTo(chars, n) ==
  IF n = 0 THEN {<<>>}
  ELSE LET shorter == StringsUpTo(chars, n - 1)
       IN  shorter \cup {Append(s, c) : s \in shorter, c \in chars}

\* The values of a price variable: unset, or any string of PriceChars.
RawPrices ==
  {undefined} \cup ExponentPrices
  \cup {Str(s) : s \in StringsUpTo(PriceChars, MaxPriceLen)}

\* The call sites of getPrice: default, minimum and maximum price.
PriceCallSites ==
  << [name |-> "MONITOR_FIRESTORE_ENT_READ_UNIT_COST",
      defaultPrice |-> DEFAULT_COST_ENTERPRISE_READ_UNIT,
      minPrice |-> FIRESTORE_MIN_PRICE, maxPrice |-> FIRESTORE_MAX_PRICE],
     [name |-> "MONITOR_FIRESTORE_ENT_WRITE_UNIT_COST",
      defaultPrice |-> DEFAULT_COST_ENTERPRISE_WRITE_UNIT,
      minPrice |-> FIRESTORE_MIN_PRICE, maxPrice |-> FIRESTORE_MAX_PRICE],
     [name |-> "MONITOR_FIRESTORE_STD_READ_COST",
      defaultPrice |-> DEFAULT_COST_STANDARD_READ,
      minPrice |-> FIRESTORE_MIN_PRICE, maxPrice |-> FIRESTORE_MAX_PRICE],
     [name |-> "MONITOR_FIRESTORE_STD_WRITE_COST",
      defaultPrice |-> DEFAULT_COST_STANDARD_WRITE,
      minPrice |-> FIRESTORE_MIN_PRICE, maxPrice |-> FIRESTORE_MAX_PRICE],
     [name |-> "MONITOR_FIRESTORE_STD_DELETE_COST",
      defaultPrice |-> DEFAULT_COST_STANDARD_DELETE,
      minPrice |-> FIRESTORE_MIN_PRICE, maxPrice |-> FIRESTORE_MAX_PRICE],
     [name |-> "MONITOR_STORAGE_BANDWIDTH_COST",
      defaultPrice |-> DEFAULT_STORAGE_BANDWIDTH_COST,
      minPrice |-> STORAGE_MIN_PRICE, maxPrice |-> STORAGE_MAX_PRICE],
     [name |-> "MONITOR_CLOUD_FUNCTIONS_CPU_SECOND_COST",
      defaultPrice |-> DEFAULT_CPU_SECOND_COST,
      minPrice |-> CPU_MIN_PRICE, maxPrice |-> CPU_MAX_PRICE],
     [name |-> "MONITOR_CLOUD_FUNCTIONS_MEMORY_GB_SECOND_COST",
      defaultPrice |-> DEFAULT_MEMORY_GB_SECOND_COST,
      minPrice |-> MEMORY_MIN_PRICE, maxPrice |-> MEMORY_MAX_PRICE],
     [name |-> "MONITOR_CLOUD_FUNCTIONS_EGRESS_BANDWIDTH_COST",
      defaultPrice |-> DEFAULT_EGRESS_BANDWIDTH_COST,
      minPrice |-> EGRESS_MIN_PRICE, maxPrice |-> EGRESS_MAX_PRICE],
     [name |-> "MONITOR_CLOUD_FUNCTIONS_REQUEST_COST",
      defaultPrice |-> DEFAULT_REQUEST_COST,
      minPrice |-> REQUEST_MIN_PRICE, maxPrice |-> REQUEST_MAX_PRICE] >>

\* No run of monitorUsage takes place in the single-function specifications.
RunIdle == env = BaseEnv /\ RunFresh

InitPrice ==
  /\ RunIdle
  /\ \E site \in 1..Len(PriceCallSites), raw \in RawPrices :
       call = [fn |-> "getPrice", site |-> site, customPrice |-> raw]
  /\ result = NotReturned

\* getPrice is called at the call site and returns.
GetPriceReturn ==
  /\ call.fn = "getPrice"
  /\ result = NotReturned
  /\ LET site == PriceCallSites[call.site]
     IN  result' = [ok |-> TRUE,
                    v |-> getPrice(call.customPrice, site.defaultPrice,
                                   site.minPrice, site.maxPrice),
                    err |-> "",
                    logged |-> getPriceError(call.customPrice, site.minPrice,
                                             site.maxPrice)]
  /\ UNCHANGED <<runVars, call>>

NextPrice == GetPriceReturn

SpecPrice == InitPrice /\ [][NextPrice]_vars

(***************************************************************************)
(* fetchBudget on its own, from the response of getBudget on: every        *)
(* currency, units string up to MaxUnitsLen characters and nanos value.    *)
(***************************************************************************)
MaxUnitsLen == 2

UnitsChars == {"0", "1", "2", "-", ".", "x"}

BudgetInputs ==
  [ currencyCode : {USD, Str(<<"E", "U", "R">>), Str(<<"u", "s", "d">>), undefined},
    units : {undefined} \cup {Str(s) : s \in StringsUpTo(UnitsChars, MaxUnitsLen)},
    nanos : {undefined, Num(0, 1), Num(500000000, 1), Num(-500000000, 1),
             Str(<<"2", "5", "0", "0", "0", "0", "0", "0", "0">>)} ]

InitBudget ==
  /\ RunIdle
  /\ \E data \in BudgetInputs : call = [fn |-> "fetchBudget", data |-> data]
  /\ result = NotReturned

\* getBudget has resolved with call.data: fetchBudget returns or throws.
FetchBudgetReturn ==
  /\ call.fn = "fetchBudget"
  /\ result = NotReturned
  /\ result' = fetchBudgetResult(call.data)
  /\ UNCHANGED <<runVars, call>>

NextBudget == FetchBudgetReturn

SpecBudget == InitBudget /\ [][NextBudget]_vars

(***************************************************************************)
(* Properties                                                              *)
(***************************************************************************)
EveryCallCompleted == \A t \in Tasks : promise[t].st = "fulfilled"

SomeCallFailed == \E t \in Tasks : promise[t].st = "rejected"

NormalMode == env.MONITORING_ENABLED = STRUE

\* The sum of the four costs the calculators returned.
CostsReturned ==
  Add(promise["firestore"].v,
      Add(promise["hosting"].v, Add(promise["storage"].v, promise["functions"].v)))

BudgetReturned == promise["budget"].v

Decided == pc \in {"await_disable", "returned", "threw"}

\* C1: in normal mode, once a run in which fetchBudget and all calculators
\* succeeded has made its decision, executeDisable has been invoked if and
\* only if the sum of the four costs is strictly greater than the budget; with
\* a total equal to the budget it has not been invoked.
C1_DisableIffOverBudget ==
  (NormalMode /\ EveryCallCompleted /\ Decided)
    => /\ (calls.executeDisable = 1) <=> Gt(CostsReturned, BudgetReturned)
       /\ (CostsReturned = BudgetReturned) => calls.executeDisable = 0

\* C1 witness: a normal-mode run returned with a total equal to the budget.
C1_Witness ==
  /\ NormalMode /\ EveryCallCompleted /\ pc = "returned"
  /\ CostsReturned = BudgetReturned
  /\ calls.executeDisable = 0

\* C2: when fetchBudget or a calculator has rejected, executeDisable is never
\* invoked and monitorUsage is still waiting or has failed, whatever the
\* other calls returned and in whatever order.
C2_FailureNeverDisables ==
  SomeCallFailed
    => /\ calls.executeDisable = 0
       /\ pc \in {"await_all", "threw"}
       /\ outcome \in {"none", "failed"}

\* C2 witness: the run failed on a rejected calculator although the costs of
\* the calculators that completed already exceed the budget.
C2_Witness ==
  /\ pc = "threw"
  /\ promise["storage"].st = "rejected"
  /\ \A t \in {"budget", "firestore", "hosting"} : promise[t].st = "fulfilled"
  /\ Gt(Add(promise["firestore"].v, promise["hosting"].v), BudgetReturned)
  /\ calls.executeDisable = 0

\* C3: in test mode executeDisable is never invoked; a run whose total exceeds
\* the budget only logs the breach and returns.
C3_TestModeNeverDisables ==
  (env.MONITORING_ENABLED = STEST)
    => /\ calls.executeDisable = 0
       /\ pc # "await_disable"
       /\ (EveryCallCompleted /\ Decided /\ Gt(CostsReturned, BudgetReturned))
            => (pc = "returned" /\ outcome = "breach_logged")

\* C3 witness: a test-mode run whose total exceeds the budget has returned.
C3_Witness ==
  /\ env.MONITORING_ENABLED = STEST
  /\ outcome = "breach_logged"
  /\ Gt(CostsReturned, BudgetReturned)
  /\ calls.executeDisable = 0

\* C4: when MONITORING_ENABLED is neither "true" nor "test", no request is
\* made to the billing, budget or monitoring connectors, no call is started
\* and executeDisable is not invoked.
C4_DisabledDoesNothing ==
  (env.MONITORING_ENABLED \notin {STRUE, STEST})
    => /\ calls = NoCalls
       /\ \A t \in Tasks : promise[t].st = "idle"
       /\ pc \in {"entry", "returned"}

\* C4 witness: monitorUsage returned with MONITORING_ENABLED unset.
C4_Witness ==
  /\ env.MONITORING_ENABLED = undefined
  /\ pc = "returned"
  /\ calls = NoCalls

\* C5: a run invokes executeDisable at most once, only after the budget fetch
\* and every calculator have completed, and a normal-mode run that returned
\* with a total above the budget has invoked it exactly once.
C5_DisableAtMostOnce ==
  /\ calls.executeDisable \in {0, 1}
  /\ calls.executeDisable = 1 => EveryCallCompleted
  /\ (NormalMode /\ EveryCallCompleted /\ pc = "returned"
        /\ Gt(CostsReturned, BudgetReturned))
       => (calls.executeDisable = 1 /\ outcome = "disable_executed")

\* C5 witness: a breached normal-mode run executed the disable action once.
C5_Witness ==
  /\ NormalMode
  /\ outcome = "disable_executed"
  /\ calls.executeDisable = 1
  /\ Gt(CostsReturned, BudgetReturned)

\* C6: while monitorUsage waits, fetchBudget and all four calculators have
\* been started and have issued their requests; the comparison is made only
\* after all five have completed, on the sum of the four calculators' costs
\* and the budget that fetchBudget returned.
C6_StartAllThenCompare ==
  /\ pc = "await_all"
       => /\ \A t \in Tasks : promise[t].st # "idle"
          /\ calls.getProjectBillingInfo = 1
          /\ calls.listTimeSeries = 11
  /\ (\/ totalCost # undefined
      \/ pc = "await_disable"
      \/ outcome \in {"within", "breach_logged", "disable_executed"})
       => /\ EveryCallCompleted
          /\ totalCost = CostsReturned
          /\ budgetAmount = BudgetReturned

\* C6 witness: the comparison was made on a total to which every calculator
\* contributed a cost.
C6_Witness ==
  /\ pc = "returned"
  /\ totalCost # undefined
  /\ \A t \in Calculators : Gt(promise[t].v, Zero)
  /\ totalCost = CostsReturned

BudgetIdUnusable ==
  env.MONITOR_BUDGET_ID.t # "string" \/ env.MONITOR_BUDGET_ID.s = <<>>

\* C7: with a budget id that is unset or empty, getBudget is never requested,
\* fetchBudget never returns an amount, and once it has passed the check it
\* has failed.
C7_MissingBudgetIdFails ==
  BudgetIdUnusable
    => /\ calls.getBudget = 0
       /\ promise["budget"].st # "fulfilled"
       /\ budgetAmount = undefined
       /\ budgetPc = "done" => promise["budget"].st = "rejected"

\* C7 witness: fetchBudget failed on an empty budget id.
C7_Witness ==
  /\ env.MONITOR_BUDGET_ID = Str(<<>>)
  /\ budgetPc = "done"
  /\ promise["budget"].st = "rejected"
  /\ calls.getBudget = 0

\* C8: when the budget's currency code is not "USD" (absent included),
\* fetchBudget fails, and the run fails without comparing the total with the
\* budget and without invoking executeDisable.
C8_NonUsdFails ==
  (budgetData # undefined /\ budgetData.currencyCode # Str(<<"U", "S", "D">>))
    => /\ promise["budget"].st = "rejected"
       /\ pc \in {"await_all", "threw"}
       /\ totalCost = undefined
       /\ calls.executeDisable = 0

\* C8 witness: the run failed on a budget without a currency code while every
\* calculator returned a cost.
C8_Witness ==
  /\ budgetData # undefined
  /\ budgetData.currencyCode = undefined
  /\ pc = "threw"
  /\ \A t \in Calculators : promise[t].st = "fulfilled"

\* units + nanos / 1_000_000_000 of the budget that getBudget returned.
CombinedAmount ==
  Add(parseFloat(call.data.units),
      Div(parseFloat(call.data.nanos), Num(1000000000, 1)))

\* C9: a value that fetchBudget returns equals units + nanos / 1_000_000_000
\* and is finite and strictly positive; when the combined amount is zero,
\* negative or not finite, fetchBudget fails.
C9_BudgetAmountValid ==
  (call.fn = "fetchBudget" /\ result # NotReturned)
    => /\ result.ok
            => /\ result.v = CombinedAmount
               /\ isFinite(result.v)
               /\ Gt(result.v, Zero)
       /\ (~isFinite(CombinedAmount) \/ ~Gt(CombinedAmount, Zero)) => ~result.ok

\* C9 witness: units "1" and nanos 500000000 gave the amount 3/2.
C9_Witness ==
  /\ call.fn = "fetchBudget"
  /\ call.data.units = Str(<<"1">>)
  /\ call.data.nanos = Num(500000000, 1)
  /\ result.ok
  /\ result.v = Num(3, 2)

\* C10: at every call site of getPrice and for every raw configuration value,
\* the returned price lies within [minPrice, maxPrice] of that call site.
C10_PriceWithinBounds ==
  (call.fn = "getPrice" /\ result.ok)
    => /\ Le(PriceCallSites[call.site].minPrice, result.v)
       /\ Le(result.v, PriceCallSites[call.site].maxPrice)

\* C10 witness: a price above the maximum was replaced by the default.
C10_Witness ==
  /\ call.fn = "getPrice"
  /\ call.customPrice = Str(<<"5", ".", "1">>)
  /\ result.ok
  /\ result.v = PriceCallSites[call.site].defaultPrice

\* C11: getPrice returns exactly defaultPrice when the parsed value is not
\* finite, negative, below minPrice or above maxPrice, the first of these
\* that applies being the one reported; otherwise it returns the parsed
\* value unchanged, minPrice and maxPrice themselves being accepted.
C11_PriceOrDefault ==
  (call.fn = "getPrice" /\ result.ok)
    => LET site   == PriceCallSites[call.site]
           parsed == parseFloat(call.customPrice)
       IN  IF parsed.k # "fin"
           THEN result.v = site.defaultPrice /\ result.logged = "NaN/Infinite"
           ELSE IF Cmp(parsed, Zero) < 0
           THEN /\ result.v = site.defaultPrice
                /\ result.logged = "price must be greater than 0"
           ELSE IF Cmp(parsed, site.minPrice) < 0
           THEN /\ result.v = site.defaultPrice
                /\ result.logged = "below minimum allowed price"
           ELSE IF Cmp(parsed, site.maxPrice) > 0
           THEN /\ result.v = site.defaultPrice
                /\ result.logged = "above maximum allowed price"
           ELSE result.v = parsed /\ result.logged = ""

\* C11 witness: ".01", the minimum price of the Firestore call sites, was
\* accepted and returned unchanged.
C11_Witness ==
  /\ call.fn = "getPrice"
  /\ call.customPrice = Str(<<".", "0", "1">>)
  /\ PriceCallSites[call.site].minPrice = Num(1, 100)
  /\ PriceCallSites[call.site].defaultPrice # Num(1, 100)
  /\ result.ok
  /\ result.v = Num(1, 100)

(***************************************************************************)
(* The cost calculators on their own: one calculator is called with the    *)
(* responses of its metric requests under an environment, and returns or   *)
(* throws.                                                                 *)
(***************************************************************************)
\* getFirestoreCost from the arrival of its responses <<enterprise reads,
\* enterprise writes, standard reads, standard writes, standard deletes>>.
getFirestoreCost(responses, e, now) ==
  FirestoreStandardPhase(
    FirestoreEnterprisePhase(responses[1], responses[2], e, now),
    responses[3], responses[4], responses[5], e)

\* The calculator t of monitorUsage applied to the responses of its requests.
CalculatorCost(t, usage, e) ==
  CASE t = "firestore" -> getFirestoreCost(usage, e, NowTs)
    [] t = "hosting"   -> getHostingCost(usage, e)
    [] t = "storage"   -> getStorageCost(usage, e)
    [] t = "functions" ->
         getCloudFunctionsCost(usage[1], usage[2], usage[3], usage[4], e)

DbStandard == Str(<<"d", "b", "3">>)

\* Valid usage above every free allowance, so that every price enters the
\* cost: a million operations of each Firestore kind, 2 GiB of hosting
\* traffic, 1 GiB of storage egress outside the quota regions, and 100000
\* vCPU seconds, 100000 GiB-seconds, 1 GiB and a million requests above the
\* Cloud Functions allowances.
PaidUsage ==
  [ firestore |->
      << <<DbEntry(DbOther, <<IntPoint(Day1Ts, Million)>>)>>,
         <<DbEntry(DbOther, <<IntPoint(Day1Ts, Million)>>)>>,
         <<DbEntry(DbStandard, <<IntPoint(Day1Ts, Million)>>)>>,
         <<DbEntry(DbStandard, <<IntPoint(Day2Ts, Million)>>)>>,
         <<DbEntry(DbStandard, <<IntPoint(Day2Ts, Million)>>)>> >>,
    hosting |->
      <<SiteEntry(<<IntPoint(Day1Ts, <<"1", "0", "2", "4">>),
                    IntPoint(Day2Ts, <<"1", "0", "2", "4">>)>>)>>,
    storage |->
      <<BucketEntry(Str(<<"e", "u">>), <<IntPoint(Day1Ts, <<"1", "0", "2", "4">>)>>)>>,
    functions |->
      << <<RevisionEntry(<<DoublePoint(Day1Ts, 300000)>>)>>,
         <<RevisionEntry(<<DoublePoint(Day1Ts, 500000)>>)>>,
         <<RevisionEntry(<<IntPoint(Day1Ts, <<"6", "1", "4", "4">>)>>)>>,
         <<RevisionEntry(<<IntPoint(Day1Ts, <<"3", "0", "0", "0", "0", "0", "0">>)>>)>> >> ]

\* The price variables: the calculator that reads each one, its default,
\* minimum and maximum, and the default written as a configuration string.
PriceVariables ==
  [i \in 1..Len(PriceCallSites) |->
     [calculator |-> IF i <= 5 THEN "firestore"
                     ELSE IF i = 6 THEN "storage" ELSE "functions",
      site |-> PriceCallSites[i]]]
  \o << [calculator |-> "hosting",
         site |-> [name |-> "MONITOR_HOSTING_BANDWIDTH_COST",
                   defaultPrice |-> DEFAULT_HOSTING_BANDWIDTH_COST,
                   minPrice |-> HOSTING_MIN_PRICE,
                   maxPrice |-> HOSTING_MAX_PRICE]] >>

DefaultPriceString ==
  [ MONITOR_FIRESTORE_ENT_READ_UNIT_COST |-> Str(<<"0", ".", "0", "5">>),
    MONITOR_FIRESTORE_ENT_WRITE_UNIT_COST |-> Str(<<"0", ".", "2", "6">>),
    MONITOR_FIRESTORE_STD_READ_COST |-> Str(<<"0", ".", "3">>),
    MONITOR_FIRESTORE_STD_WRITE_COST |-> Str(<<"0", ".", "9">>),
    MONITOR_FIRESTORE_STD_DELETE_COST |-> Str(<<"0", ".", "1">>),
    MONITOR_STORAGE_BANDWIDTH_COST |-> Str(<<"0", ".", "1", "2">>),
    MONITOR_CLOUD_FUNCTIONS_CPU_SECOND_COST |->
      Str(<<"0", ".", "0", "0", "0", "0", "2", "4">>),
    MONITOR_CLOUD_FUNCTIONS_MEMORY_GB_SECOND_COST |->
      Str(<<"0", ".", "0", "0", "0", "0", "0", "2", "5">>),
    MONITOR_CLOUD_FUNCTIONS_EGRESS_BANDWIDTH_COST |-> Str(<<"0", ".", "1", "2">>),
    MONITOR_CLOUD_FUNCTIONS_REQUEST_COST |-> Str(<<"0", ".", "4">>),
    MONITOR_HOSTING_BANDWIDTH_COST |-> Str(<<"0", ".", "1", "5">>) ]

\* The deployment with no price variable set.
NoPriceEnv ==
  [n \in DOMAIN BaseEnv |->
     IF n \in DOMAIN DefaultPriceString THEN undefined ELSE BaseEnv[n]]

\* One calculator is called with paid usage; the environment sets one of the
\* price variables it reads to any raw value.
InitCost ==
  /\ RunFresh
  /\ \E i \in 1..Len(PriceVariables), raw \in RawPrices :
       /\ env = [NoPriceEnv EXCEPT ![PriceVariables[i].site.name] = raw]
       /\ call = [fn |-> "calculator",
                  calculator |-> PriceVariables[i].calculator,
                  variable |-> i,
                  usage |-> PaidUsage[PriceVariables[i].calculator]]
  /\ result = NotReturned

\* The responses of the calculator's requests arrive: it returns or throws.
CalculatorReturn ==
  /\ call.fn = "calculator"
  /\ result = NotReturned
  /\ result' = CalculatorCost(call.calculator, call.usage, env)
  /\ UNCHANGED <<runVars, call>>

NextCost == CalculatorReturn

SpecCost == InitCost /\ [][NextCost]_vars

\* The price variable that the environment of the call sets is not a valid
\* price of its call site.
PriceMisconfigured ==
  LET site   == PriceVariables[call.variable].site
      parsed == parseFloat(env[site.name])
  IN  \/ parsed.k # "fin"
      \/ Cmp(parsed, site.minPrice) < 0
      \/ Cmp(parsed, site.maxPrice) > 0

\* The environment of the call with the default price written out in place
\* of the price variable it sets.
DefaultPriceEnv ==
  LET name == PriceVariables[call.variable].site.name
  IN  [env EXCEPT ![name] = DefaultPriceString[name]]

\* C12: no value of a price variable makes a calculator fail: with valid
\* usage data every calculator returns, and under a value that is absent,
\* empty, non-numeric, negative or out of range it returns the cost at the
\* default price.
C12_PriceNeverFailsCalculator ==
  (call.fn = "calculator" /\ result # NotReturned)
    => /\ result.ok
       /\ PriceMisconfigured
            => result.v = CalculatorCost(call.calculator, call.usage,
                                         DefaultPriceEnv).v


(***************************************************************************)
(* monitorUsage with given usage: one run in which the budget connector    *)
(* and every listTimeSeries request return the responses held in call.     *)
(***************************************************************************)
\* The int64 values of the points of a response, as the connector sends them.
IntValues == {<<"7">>, <<"-", "7">>, <<"N", "a", "N">>}

\* The double values of the points of a response.
DoubleValues == {Num(7, 1), Num(-7, 1), NaN}

RawDoublePoint(ts, v) ==
  [seconds |-> ts, int64Value |-> undefined, doubleValue |-> v]

\* The non-empty lists of at most two points with the given values.
IntPointLists ==
  { <<IntPoint(Day1Ts, a)>> : a \in IntValues }
  \cup { <<IntPoint(Day1Ts, a), IntPoint(Day2Ts, b)>> : a \in IntValues, b \in IntValues }
  \cup { <<IntPoint(Day1Ts, <<"0">>), IntPoint(Day2Ts, <<"-", "7">>)>>,
         <<IntPoint(Day1Ts, <<"0">>), IntPoint(Day2Ts, <<"7">>)>>,
         <<IntPoint(Day1Ts, <<"7">>), IntPoint(Day2Ts, <<"0">>)>>,
         <<IntPoint(Day1Ts, <<>>)>>,
         <<IntPoint(Day1Ts, <<"-", "0">>)>>,
         <<RawDoublePoint(Day1Ts, Num(7, 1))>> }

DoublePointLists ==
  { <<RawDoublePoint(Day1Ts, a)>> : a \in DoubleValues \cup {Infinity, NegInfinity} }
  \cup { <<RawDoublePoint(Day1Ts, a), RawDoublePoint(Day2Ts, b)>> :
           a \in DoubleValues, b \in DoubleValues }
  \cup { <<IntPoint(Day1Ts, <<"7">>)>>,
         <<RawDoublePoint(Day1Ts, Zero), RawDoublePoint(Day2Ts, Num(7, 1))>>,
         <<RawDoublePoint(Day1Ts, Num(7, 1)), RawDoublePoint(Day2Ts, Zero)>> }

GoodPoints == <<IntPoint(Day1Ts, <<"7">>)>>

USEast1 == Str(<<"u", "s", "-", "e", "a", "s", "t", "1">>)

HostingUsages ==
  { <<SiteEntry(points)>> : points \in IntPointLists }
  \cup { <<SiteEntry(GoodPoints), SiteEntry(<<IntPoint(Day1Ts, <<"-", "7">>)>>)>>,
         <<SiteEntry(<<IntPoint(Day1Ts, <<"-", "7">>)>>), SiteEntry(GoodPoints)>> }

StorageUsages ==
  { <<BucketEntry(Str(<<"e", "u">>), points)>> : points \in IntPointLists }
  \cup { <<BucketEntry(USEast1, <<IntPoint(Day1Ts, a)>>)>> : a \in IntValues }
  \cup { <<BucketEntry(USEast1, GoodPoints),
           BucketEntry(Str(<<"e", "u">>), <<IntPoint(Day1Ts, <<"-", "7">>)>>)>> }

\* Responses of the four Cloud Run metrics: one of the responses of the paid
\* usage is replaced.
FunctionsUsages ==
  { [PaidUsage.functions EXCEPT ![m] = <<RevisionEntry(points)>>] :
      m \in {1, 2}, points \in DoublePointLists }
  \cup
  { [PaidUsage.functions EXCEPT ![m] = <<RevisionEntry(points)>>] :
      m \in {3, 4}, points \in IntPointLists }

NoUsage ==
  [ firestore |-> << <<>>, <<>>, <<>>, <<>>, <<>> >>,
    hosting |-> <<>>,
    storage |-> <<>>,
    functions |-> << <<>>, <<>>, <<>>, <<>> >> ]

\* The usage of a run: none, paid usage of every product, or paid usage in
\* which a point of the response to one calculator is replaced.
BadInt(chars) == <<IntPoint(Day1Ts, <<"7">>), IntPoint(Day2Ts, chars)>>

RunUsages ==
  {NoUsage, PaidUsage}
  \cup { [PaidUsage EXCEPT !.hosting = <<SiteEntry(BadInt(a))>>] :
           a \in {<<"-", "7">>, <<"N", "a", "N">>, <<>>} }
  \cup { [PaidUsage EXCEPT !.storage = <<BucketEntry(loc, BadInt(<<"-", "7">>))>>] :
           loc \in {Str(<<"e", "u">>), USEast1} }
  \cup { [PaidUsage EXCEPT !.storage =
            <<BucketEntry(Str(<<"e", "u">>), BadInt(<<"N", "a", "N">>))>>] }
  \cup { [PaidUsage EXCEPT !.functions[m] =
            <<RevisionEntry(<<RawDoublePoint(Day1Ts, a)>>)>>] :
           m \in {1, 2}, a \in {Num(-7, 1), NaN} }
  \cup { [PaidUsage EXCEPT !.functions[1] =
            <<RevisionEntry(<<RawDoublePoint(Day1Ts, Infinity)>>)>>] }
  \cup { [PaidUsage EXCEPT !.functions[m] = <<RevisionEntry(BadInt(<<"-", "7">>))>>] :
           m \in {3, 4} }

\* Responses of the five Firestore metrics: the response of the enterprise
\* read units or of the standard reads metric of the paid usage is replaced
\* by one entry of the free-tier database or of another database.
FirestoreUsages ==
  { [PaidUsage.firestore EXCEPT ![m] = <<DbEntry(db, points)>>] :
      m \in {1, 3}, db \in {DbDefault, DbStandard}, points \in IntPointLists }

\* The usage a calculator is called with on its own.
CalculatorUsages ==
  [ firestore |-> FirestoreUsages, hosting |-> HostingUsages,
    storage |-> StorageUsages, functions |-> FunctionsUsages ]

\* 5,000 operations on one day and 60,000 on the next, with points of value
\* 0 before, between and after them.
ZeroPoint(ts) == IntPoint(ts, <<"0">>)

PointsWithZeros ==
  { <<>>,
    <<ZeroPoint(Day1Ts)>>,
    <<IntPoint(Day1Ts, <<"5", "0", "0", "0">>)>>,
    <<ZeroPoint(Day1Ts), IntPoint(Day1Ts, <<"5", "0", "0", "0">>)>>,
    <<IntPoint(Day1Ts, <<"5", "0", "0", "0">>), ZeroPoint(Day2Ts)>>,
    <<IntPoint(Day1Ts, <<"5", "0", "0", "0">>),
      IntPoint(Day2Ts, <<"6", "0", "0", "0", "0">>)>>,
    <<IntPoint(Day1Ts, <<"5", "0", "0", "0">>), ZeroPoint(Day1Ts),
      IntPoint(Day2Ts, <<"6", "0", "0", "0", "0">>)>>,
    <<ZeroPoint(Day1Ts), IntPoint(Day1Ts, <<"5", "0", "0", "0">>), ZeroPoint(Day2Ts),
      IntPoint(Day2Ts, <<"6", "0", "0", "0", "0">>), ZeroPoint(Day2Ts)>> }

\* Calls of calculatePaidOperations, of firestore.js and of its earlier
\* version, for a standard request.
PointsCalls ==
  { [fn |-> fn, db |-> DbEntry(id, points), isEnterpriseRequest |-> FALSE,
     ids |-> {}, freeQuota |-> FREE_TIER_STANDARD_DAILY_READS] :
      fn \in {"calculatePaidOperations", "calculatePaidOperationsOld"},
      id \in {DbDefault, DbStandard}, points \in PointsWithZeros }

OneDollarBudget == [currencyCode |-> USD, units |-> Str(<<"1">>), nanos |-> Num(0, 1)]

\* monitorUsage is about to run with the usage of call.
InitUsage ==
  /\ env = [ValidEnv EXCEPT !.MONITORING_ENABLED = STRUE]
  /\ RunFresh
  /\ \E usage \in RunUsages :
       call = [fn |-> "monitorUsage", calculator |-> "all",
               budget |-> OneDollarBudget, usage |-> usage]
  /\ result = NotReturned

\* monitorUsage is called.
MonitorStartUsage == call.fn = "monitorUsage" /\ MonitorStart

\* fetchBudget: getBudget resolves with the budget of the run.
GetBudgetUsage ==
  /\ budgetPc = "getBudget"
  /\ budgetData' = call.budget
  /\ promise' = [promise EXCEPT !["budget"] = Settled(fetchBudgetResult(call.budget))]
  /\ budgetPc' = "done"
  /\ UNCHANGED <<env, pc, outcome, firestoreEnt, totalCost, budgetAmount,
                 calls, callVars>>

\* calculatePaidOperations returns.
PaidOperationsReturned ==
  /\ call.fn = "calculatePaidOperations"
  /\ result = NotReturned
  /\ result' = calculatePaidOperations(call.db, call.isEnterpriseRequest, call.freeQuota,
                 env.FIRESTORE_FREE_TIER_DATABASE_NAME, call.ids, NowTs)
  /\ UNCHANGED <<runVars, call>>

\* calculatePaidOperations of the earlier version of firestore.js returns.
PaidOperationsReturnedOld ==
  /\ call.fn = "calculatePaidOperationsOld"
  /\ result = NotReturned
  /\ result' = calculatePaidOperationsOld(call.db, call.isEnterpriseRequest, call.freeQuota,
                  env.FIRESTORE_FREE_TIER_DATABASE_NAME, call.ids, NowTs)
  /\ UNCHANGED <<runVars, call>>

\* getFirestoreCost: both enterprise requests have resolved.
FirestoreEnterpriseUsage ==
  /\ promise["firestore"].st = "pending"
  /\ firestoreEnt.pm = 0
  /\ \E ent \in {FirestoreEnterprisePhase(call.usage.firestore[1],
                                          call.usage.firestore[2], env, NowTs)} :
       IF ent.ok
       THEN /\ firestoreEnt' = ent
            /\ promise' = promise
       ELSE /\ firestoreEnt' = firestoreEnt
            /\ promise' = [promise EXCEPT !["firestore"] = Settled(Throw(ent.err))]
  /\ UNCHANGED <<env, pc, outcome, budgetPc, budgetData, totalCost,
                 budgetAmount, calls, callVars>>

\* getFirestoreCost: the three standard requests have resolved.
FirestoreStandardUsage ==
  /\ promise["firestore"].st = "pending"
  /\ firestoreEnt.pm # 0
  /\ promise' = [promise EXCEPT !["firestore"] =
       Settled(FirestoreStandardPhase(firestoreEnt, call.usage.firestore[3],
                 call.usage.firestore[4], call.usage.firestore[5], env))]
  /\ UNCHANGED <<env, pc, outcome, budgetPc, budgetData, firestoreEnt,
                 totalCost, budgetAmount, calls, callVars>>

\* getHostingCost, getStorageCost, getCloudFunctionsCost: the requests of the
\* calculator have resolved with the usage of the run.
CalculatorUsage ==
  /\ \E t \in {"hosting", "storage", "functions"} :
       /\ promise[t].st = "pending"
       /\ promise' = [promise EXCEPT ![t] = Settled(
            CASE t = "hosting" -> getHostingCost(call.usage.hosting, env)
              [] t = "storage" -> getStorageCost(call.usage.storage, env)
              [] t = "functions" ->
                   getCloudFunctionsCost(call.usage.functions[1], call.usage.functions[2],
                     call.usage.functions[3], call.usage.functions[4], env))]
  /\ UNCHANGED <<env, pc, outcome, budgetPc, budgetData, firestoreEnt,
                 totalCost, budgetAmount, calls, callVars>>

NextUsage ==
  \/ MonitorStartUsage
  \/ BillingInfoResolve
  \/ GetBudgetUsage
  \/ BudgetConnectorError
  \/ FirestoreEnterpriseUsage
  \/ FirestoreStandardUsage
  \/ CalculatorUsage
  \/ MetricsConnectorError
  \/ MonitorReject
  \/ MonitorDecide
  \/ DisableResolve
  \/ DisableReject

SpecUsage == InitUsage /\ [][NextUsage]_vars

\* One calculator, or calculatePaidOperations, is called on its own with the
\* usage of call.
InitPoints ==
  /\ env = [ValidEnv EXCEPT !.MONITORING_ENABLED = STRUE]
  /\ RunFresh
  /\ \/ \E t \in DOMAIN CalculatorUsages : \E usage \in CalculatorUsages[t] :
          call = [fn |-> "calculator", calculator |-> t,
                  budget |-> undefined, usage |-> usage]
     \/ call \in PointsCalls
  /\ result = NotReturned

NextPoints ==
  \/ CalculatorReturn
  \/ PaidOperationsReturned
  \/ PaidOperationsReturnedOld

SpecPoints == InitPoints /\ [][NextPoints]_vars

\* The value the calculator reads from a point of an int64 or double metric.
PointValue(point, isDouble) ==
  IF isDouble THEN parseFloat(point.doubleValue) ELSE parseInt(point.int64Value)

BadPoint(point, isDouble) ==
  ~isFinite(PointValue(point, isDouble)) \/ Lt(PointValue(point, isDouble), Zero)

HasBadPoint(response, isDouble) ==
  \E i \in 1..Len(response) : \E j \in 1..Len(response[i].points) :
    BadPoint(response[i].points[j], isDouble)

\* Some point of the usage the calculator t receives is negative or does not
\* parse to a finite number.
BadUsage(t, usage) ==
  CASE t = "hosting" -> HasBadPoint(usage, FALSE)
    [] t = "storage" -> HasBadPoint(usage, FALSE)
    [] t = "functions" ->
         \/ HasBadPoint(usage[1], TRUE) \/ HasBadPoint(usage[2], TRUE)
         \/ HasBadPoint(usage[3], FALSE) \/ HasBadPoint(usage[4], FALSE)

\* C13: when a point of the usage that getHostingCost, getStorageCost or
\* getCloudFunctionsCost receives is negative or does not parse to a finite
\* number, the calculator never returns a cost (its promise is never
\* fulfilled: it rejects once its requests have resolved), and the run of
\* monitorUsage never invokes executeDisable.
C13_BadPointThrowsNoDisable ==
  \A t \in {"hosting", "storage", "functions"} :
    BadUsage(t, call.usage[t])
      => /\ promise[t].st # "fulfilled"
         /\ calls.executeDisable = 0
         /\ pc # "await_disable"
         /\ outcome \notin {"within", "breach_logged", "disable_executed"}

C13_Witness ==
  /\ call.fn = "monitorUsage"
  /\ BadUsage("hosting", call.usage.hosting)
  /\ call.usage.hosting[1].points[1].int64Value = Str(<<"7">>)
  /\ budgetPc = "done"
  /\ promise["budget"].st = "fulfilled"
  /\ promise["firestore"].st = "fulfilled"
  /\ promise["storage"].st = "fulfilled"
  /\ promise["functions"].st = "fulfilled"
  /\ promise["hosting"].st = "rejected"
  /\ budgetData = call.budget
  /\ pc = "threw"
  /\ calls.executeDisable = 0


\* Some point of the five responses getFirestoreCost receives is negative or
\* does not parse to a finite number.
FirestoreBadUsage(usage) == \E m \in 1..5 : HasBadPoint(usage[m], FALSE)

\* C14: when a point of an entry that getFirestoreCost receives is negative
\* or not finite, getFirestoreCost fails instead of returning a cost.
C14_BadFirestorePointFails ==
  (call.fn = "calculator" /\ call.calculator = "firestore"
     /\ result # NotReturned /\ FirestoreBadUsage(call.usage))
    => ~result.ok


\* The run of monitorUsage completed without failing.
RunCompleted == call.fn = "monitorUsage" /\ pc = "returned"

\* v is an object {totalCost, budgetAmount, breached} for the totals of the run.
StructuredResult(v) ==
  /\ v.t = "object"
  /\ DOMAIN v.p = {"totalCost", "budgetAmount", "breached"}
  /\ v.p.totalCost = totalCost
  /\ v.p.budgetAmount = budgetAmount
  /\ v.p.breached = Gt(totalCost, budgetAmount)

\* C15: a run of monitorUsage that completes without failing returns the
\* object {totalCost, budgetAmount, breached}, with breached true exactly
\* when totalCost > budgetAmount.
C15_ReturnsStructuredResult ==
  RunCompleted => (result.ok /\ StructuredResult(result.v))


(***************************************************************************)
(* getFirestoreCost on its own, with its five requests in flight.          *)
(*                                                                         *)
(* The five listTimeSeries requests are issued before the first await and  *)
(* resolve in any order.  getFirestoreCost awaits Promise.all of the two   *)
(* enterprise requests, runs the two enterprise loops, awaits Promise.all  *)
(* of the three standard requests, runs the three standard loops and       *)
(* prices the totals.  result holds the state of the call: phase is the    *)
(* await it is at, resolved the requests that have resolved, st the state  *)
(* its loops share, and processed the entries handed to                    *)
(* calculatePaidOperations so far, each with the requests that had         *)
(* resolved by then.                                                       *)
(***************************************************************************)
\* The requests, in the order the code issues them: enterprise read units,
\* enterprise write units, standard reads, writes and deletes.
FirestoreFreeQuota ==
  << FREE_TIER_ENTERPRISE_DAILY_READ_UNITS, FREE_TIER_ENTERPRISE_DAILY_WRITE_UNITS,
     FREE_TIER_STANDARD_DAILY_READS, FREE_TIER_STANDARD_DAILY_WRITES,
     FREE_TIER_STANDARD_DAILY_DELETES >>

\* Mutation of FirestoreAwaits: the standard requests are awaited and
\* aggregated first.
FirestoreAwaitsStandardFirst == << <<3, 4, 5>>, <<1, 2>> >>

\* The two awaits of getFirestoreCost: the requests each Promise.all waits
\* for, which are the responses the loops after it go through, in order.
FirestoreAwaits == << <<1, 2>>, <<3, 4, 5>> >>

Range(seq) == {seq[i] : i \in 1..Len(seq)}

\* The forEach loops that follow an await.
FirestoreLoopsAfter(awaited, usage) ==
  [j \in 1..Len(awaited) |->
     [data |-> usage[awaited[j]],
      isEnterpriseRequest |-> awaited[j] \in {1, 2},
      freeQuota |-> FirestoreFreeQuota[awaited[j]]]]

\* The entries the loops after an await hand to calculatePaidOperations.
RECURSIVE FirestoreEntriesAfter(_, _, _, _)
FirestoreEntriesAfter(awaited, j, usage, resolved) ==
  IF j > Len(awaited) THEN <<>>
  ELSE [i \in 1..Len(usage[awaited[j]]) |->
          [metric |-> awaited[j], entry |-> i, resolved |-> resolved]]
       \o FirestoreEntriesAfter(awaited, j + 1, usage, resolved)

\* The order in which the five loops run.
FirestoreLoopOrder == FirestoreAwaits[1] \o FirestoreAwaits[2]

\* entReadUnits, entWriteUnits, stdReads, stdWrites and stdDeletes, from the
\* totals in the order the loops produced them.
FirestoreUnits(units) ==
  [m \in 1..5 |-> units[CHOOSE k \in 1..5 : FirestoreLoopOrder[k] = m]]

\* The spec's example: 5,000 operations on one day and 60,000 on the next.
ExamplePoints ==
  << IntPoint(Day1Ts, <<"5", "0", "0", "0">>),
     IntPoint(Day2Ts, <<"6", "0", "0", "0", "0">>) >>

\* Responses of the five Firestore metrics.  The enterprise metrics report
\* DbOther and, in one of them, the free-tier database as well; one standard
\* metric reports DbStandard and one of the enterprise databases.
FirestoreResponses ==
  { PaidUsage.firestore,
    [PaidUsage.firestore EXCEPT ![3] = <<DbEntry(DbDefault, ExamplePoints)>>] }
  \cup
  { [PaidUsage.firestore EXCEPT
       ![e] = <<DbEntry(DbOther, <<IntPoint(Day1Ts, Million)>>),
                DbEntry(DbDefault, <<IntPoint(Day1Ts, Million)>>)>>,
       ![m] = <<DbEntry(DbStandard, ExamplePoints), DbEntry(db, ExamplePoints)>>] :
      e \in {1, 2}, m \in {3, 4, 5}, db \in {DbDefault, DbOther} }

\* getFirestoreCost has issued its five requests and is at its first await.
FirestoreCalled ==
  [ok |-> FALSE, v |-> undefined, err |-> "not returned",
   phase |-> 1, resolved |-> {}, processed |-> <<>>,
   st |-> [ok |-> TRUE, err |-> "", units |-> <<>>, ids |-> {}, pm |-> NowTs]]

InitFirestore ==
  /\ env = [ValidEnv EXCEPT !.MONITORING_ENABLED = STRUE]
  /\ RunFresh
  /\ \E usage \in FirestoreResponses : call = [fn |-> "getFirestoreCost", usage |-> usage]
  /\ result = FirestoreCalled

\* One of the five listTimeSeries requests resolves.
FirestoreRequestResolve ==
  /\ call.fn = "getFirestoreCost"
  /\ result.phase \in {1, 2}
  /\ \E m \in (1..5) \ result.resolved :
       result' = [result EXCEPT !.resolved = @ \cup {m}]
  /\ UNCHANGED <<runVars, call>>

\* getFirestoreCost after the loops that follow its last await: the prices,
\* the total and its return.
FirestoreReturn(r, st, e) ==
  IF r.phase < Len(FirestoreAwaits) THEN [r EXCEPT !.phase = @ + 1]
  ELSE [r EXCEPT !.phase = @ + 1,
                 !.ok = FirestoreCost([st EXCEPT !.units = FirestoreUnits(@)], e).ok,
                 !.v = FirestoreCost([st EXCEPT !.units = FirestoreUnits(@)], e).v,
                 !.err = FirestoreCost([st EXCEPT !.units = FirestoreUnits(@)], e).err]

\* getFirestoreCost resumes from an await with the state st after the loops
\* that follow it.
FirestoreResumed(r, awaited, usage, st, e) ==
  IF ~st.ok
  THEN [r EXCEPT !.phase = Len(FirestoreAwaits) + 1, !.ok = FALSE, !.err = st.err,
                 !.st = st]
  ELSE [FirestoreReturn(r, st, e) EXCEPT
          !.st = st,
          !.processed = @ \o FirestoreEntriesAfter(awaited, 1, usage, r.resolved)]

\* The Promise.all that getFirestoreCost awaits has resolved: the loops that
\* follow it run.
FirestoreResume ==
  /\ call.fn = "getFirestoreCost"
  /\ result.phase \in 1..Len(FirestoreAwaits)
  /\ Range(FirestoreAwaits[result.phase]) \subseteq result.resolved
  /\ result' = FirestoreResumed(result, FirestoreAwaits[result.phase], call.usage,
                  FirestoreLoops(FirestoreLoopsAfter(FirestoreAwaits[result.phase], call.usage),
                                 1, env.FIRESTORE_FREE_TIER_DATABASE_NAME, result.st),
                  env)
  /\ UNCHANGED <<runVars, call>>

NextFirestore == FirestoreRequestResolve \/ FirestoreResume

SpecFirestore == InitFirestore /\ [][NextFirestore]_vars


DatabaseIdOf(db) == StrictLabel(db.resource, "database_id").v

\* The databases that the entries of the two enterprise metrics name.
EnterpriseIdsOf(usage) ==
  UNION { {DatabaseIdOf(usage[e][i]) : i \in 1..Len(usage[e])} : e \in {1, 2} }

\* The call of getFirestoreCost has returned a cost.
FirestoreReturned ==
  call.fn = "getFirestoreCost" /\ result.phase = Len(FirestoreAwaits) + 1 /\ result.ok


\* The entries of a response that name no enterprise database.
StandardOnly(response, usage) ==
  SelectSeq(response, LAMBDA db : DatabaseIdOf(db) \notin EnterpriseIdsOf(usage))

\* What the entries of a standard metric add up to when each is aggregated
\* on its own, with no database marked as enterprise.
StandardTotalOf(response, m) ==
  PaidOperationsTotal(response, FALSE, FirestoreFreeQuota[m],
                      env.FIRESTORE_FREE_TIER_DATABASE_NAME, {}, NowTs).v

\* C16: a standard-metric entry of a database that an enterprise-metric entry
\* added to enterpriseDatabaseIds contributes 0 to the standard total: each
\* standard total is the total of the entries of the other databases.
C16_EnterpriseDatabaseSkipped ==
  FirestoreReturned
    => \A m \in {3, 4, 5} :
         FirestoreUnits(result.st.units)[m]
           = StandardTotalOf(StandardOnly(call.usage[m], call.usage), m)

C16_Witness ==
  /\ FirestoreReturned
  /\ call.usage[3] = <<DbEntry(DbStandard, ExamplePoints), DbEntry(DbOther, ExamplePoints)>>
  /\ DbOther \in result.st.ids
  /\ StandardTotalOf(call.usage[3], 3) = Num(130000, 1)
  /\ FirestoreUnits(result.st.units)[3] = Num(65000, 1)


\* Entry i of the response of metric m has been handed to
\* calculatePaidOperations among the first n entries processed.
ProcessedBefore(m, i, n) ==
  \E j \in 1..n : result.processed[j].metric = m /\ result.processed[j].entry = i

\* C17: whatever the order in which the five requests resolve, when the
\* first entry of a standard metric is aggregated every entry of the two
\* enterprise metrics has been processed and its database id is in
\* enterpriseDatabaseIds.
C17_EnterpriseBeforeStandard ==
  call.fn = "getFirestoreCost"
    => /\ \A k \in 1..Len(result.processed) :
            result.processed[k].metric \in {3, 4, 5}
              => /\ \A e \in {1, 2} : \A i \in 1..Len(call.usage[e]) :
                      ProcessedBefore(e, i, k - 1)
                 /\ {1, 2} \subseteq result.processed[k].resolved
       /\ (\E k \in 1..Len(result.processed) : result.processed[k].metric \in {3, 4, 5})
            => EnterpriseIdsOf(call.usage) \subseteq result.st.ids
       /\ result.phase = 2
            => /\ EnterpriseIdsOf(call.usage) \subseteq result.st.ids
               /\ \A e \in {1, 2} : \A i \in 1..Len(call.usage[e]) :
                    ProcessedBefore(e, i, Len(result.processed))

\* The three standard requests resolved before the enterprise loops ran.
C17_Witness ==
  /\ FirestoreReturned
  /\ Len(call.usage[1]) = 2
  /\ result.processed[1].metric = 1
  /\ result.processed[1].resolved = 1..5
  /\ result.processed[Len(result.processed)].metric \in {3, 4, 5}
  /\ EnterpriseIdsOf(call.usage) = {DbOther, DbDefault}
  /\ result.st.ids = {DbOther, DbDefault}


(***************************************************************************)
(* calculatePaidOperations on its own: one entry of a metric, with every   *)
(* list of at most MaxPoints points.                                       *)
(***************************************************************************)
\* The first second, noon and the last second of 1 November 2026 in Los
\* Angeles (the day daylight saving time ends), and the first second of
\* 2 November.
Day1FirstTs == 1793516400

Day1LastTs == 1793606399

Day2FirstTs == 1793606400

PointTimes == {Day1FirstTs, Day1LastTs, Day2FirstTs}

OperationCounts ==
  { <<"0">>, <<"5", "0", "0", "0">>, <<"3", "0", "0", "0", "0">>,
    <<"6", "0", "0", "0", "0">> }

OperationPoints == { IntPoint(ts, n) : ts \in PointTimes, n \in OperationCounts }

MaxPoints == 2

RECURSIVE PointListsUpTo(_)
PointListsUpTo(n) ==
  IF n = 0 THEN {<<>>}
  ELSE PointListsUpTo(n - 1)
       \cup { Append(l, p) : l \in PointListsUpTo(n - 1), p \in OperationPoints }

\* The calls: a standard request with no enterprise database or with DbOther
\* marked as one, and an enterprise request.
PaidOperationsCalls ==
  { [fn |-> "calculatePaidOperations", db |-> DbEntry(id, points),
     isEnterpriseRequest |-> k[1], ids |-> k[2], freeQuota |-> freeQuota] :
      id \in {DbDefault, DbStandard, DbOther},
      points \in PointListsUpTo(MaxPoints) \cup {ExamplePoints},
      k \in {<<FALSE, {}>>, <<FALSE, {DbOther}>>, <<TRUE, {}>>},
      freeQuota \in {FREE_TIER_STANDARD_DAILY_READS, FREE_TIER_STANDARD_DAILY_WRITES} }

InitPaid ==
  /\ env = [ValidEnv EXCEPT !.MONITORING_ENABLED = STRUE]
  /\ RunFresh
  /\ call \in PaidOperationsCalls
  /\ result = NotReturned

NextPaid == PaidOperationsReturned

SpecPaid == InitPaid /\ [][NextPaid]_vars

\* The call aggregated the points of the entry: it has returned and did not
\* skip the entry as one of an enterprise database.
PaidOperationsAggregated ==
  /\ call.fn = "calculatePaidOperations"
  /\ result # NotReturned
  /\ call.isEnterpriseRequest \/ DatabaseIdOf(call.db) \notin call.ids

\* The number a point reports, and the day of November 2026 on which its
\* interval starts in Los Angeles.
CountOf(point) == DigitsValue(point.int64Value.s, 1, Len(point.int64Value.s) + 1)

CalendarDay(point) == IF point.seconds < Day2FirstTs THEN 1 ELSE 2

RECURSIVE CountsOn(_, _, _)
CountsOn(points, days, i) ==
  IF i > Len(points) THEN 0
  ELSE (IF CalendarDay(points[i]) \in days THEN CountOf(points[i]) ELSE 0)
       + CountsOn(points, days, i + 1)

OverQuota(n, freeQuota) == IF n > freeQuota THEN n - freeQuota ELSE 0

\* C18: for an entry of the free-tier database calculatePaidOperations
\* returns the sum, over the calendar days of the billing timezone, of what
\* the points of the day exceed freeQuota by; a day at or below the quota
\* adds 0 and its unused quota is not carried to another day.
C18_FreeTierPaidPerDay ==
  (PaidOperationsAggregated
     /\ DatabaseIdOf(call.db) = env.FIRESTORE_FREE_TIER_DATABASE_NAME)
    => /\ result.ok
       /\ result.v = Num(OverQuota(CountsOn(call.db.points, {1}, 1), call.freeQuota)
                         + OverQuota(CountsOn(call.db.points, {2}, 1), call.freeQuota), 1)

\* The example of the spec: 5,000 and 60,000 on two days with a quota of 50,000.
C18_Witness ==
  /\ PaidOperationsAggregated
  /\ DatabaseIdOf(call.db) = env.FIRESTORE_FREE_TIER_DATABASE_NAME
  /\ call.db.points = ExamplePoints
  /\ call.freeQuota = 50000
  /\ result.ok
  /\ result.v = Num(10000, 1)

\* C19: for an entry of a database that is not the free-tier database and is
\* not skipped as an enterprise one, calculatePaidOperations returns the sum
\* of the values of the points, whatever freeQuota is.
C19_OtherDatabasePaidInFull ==
  (PaidOperationsAggregated
     /\ DatabaseIdOf(call.db) # env.FIRESTORE_FREE_TIER_DATABASE_NAME)
    => /\ result.ok
       /\ result.v = Num(CountsOn(call.db.points, {1, 2}, 1), 1)

C19_Witness ==
  /\ PaidOperationsAggregated
  /\ DatabaseIdOf(call.db) = DbStandard
  /\ call.db.points = ExamplePoints
  /\ call.freeQuota = 50000
  /\ result.ok
  /\ result.v = Num(65000, 1)


\* A point whose value is 0, and a response without such points.
IsZeroPoint(point) == point.int64Value = Str(<<"0">>) \/ point.doubleValue = Zero

WithoutZeroPoints(response) ==
  [i \in 1..Len(response) |->
     [response[i] EXCEPT !.points = SelectSeq(@, LAMBDA point : ~IsZeroPoint(point))]]

\* The usage of a calculator without the points of value 0.
UsageWithoutZeroPoints(t, usage) ==
  IF t \in {"hosting", "storage"} THEN WithoutZeroPoints(usage)
  ELSE [m \in 1..Len(usage) |-> WithoutZeroPoints(usage[m])]

\* calculatePaidOperations, in the version the call names, for an entry db.
PaidOperationsOf(fn, db) ==
  IF fn = "calculatePaidOperations"
  THEN calculatePaidOperations(db, call.isEnterpriseRequest, call.freeQuota,
         env.FIRESTORE_FREE_TIER_DATABASE_NAME, call.ids, NowTs)
  ELSE calculatePaidOperationsOld(db, call.isEnterpriseRequest, call.freeQuota,
         env.FIRESTORE_FREE_TIER_DATABASE_NAME, call.ids, NowTs)

\* What the points of the entry come to when every point is counted: the sum
\* of the values, or for the free-tier database what each day exceeds the
\* quota by.
EveryPointCounted(db, freeTierDatabaseId, freeQuota) ==
  IF DatabaseIdOf(db) = freeTierDatabaseId
  THEN Num(OverQuota(CountsOn(db.points, {1}, 1), freeQuota)
           + OverQuota(CountsOn(db.points, {2}, 1), freeQuota), 1)
  ELSE Num(CountsOn(db.points, {1, 2}, 1), 1)

\* C20: points of value 0, wherever they stand, change no total and no cost
\* of getFirestoreCost, getHostingCost, getStorageCost and
\* getCloudFunctionsCost, and no point of another value is left out of a
\* total.
C20_ZeroPointsChangeNothing ==
  /\ (call.fn = "calculator" /\ result # NotReturned)
       => result = CalculatorCost(call.calculator,
                     UsageWithoutZeroPoints(call.calculator, call.usage), env)
  /\ (call.fn \in {"calculatePaidOperations", "calculatePaidOperationsOld"}
        /\ result # NotReturned)
       => /\ result.v = PaidOperationsOf(call.fn, WithoutZeroPoints(<<call.db>>)[1]).v
          /\ result.v = EveryPointCounted(call.db, env.FIRESTORE_FREE_TIER_DATABASE_NAME,
                                          call.freeQuota)


(***************************************************************************)
(* The calculators on planned usage: call.plan lists what every entry of   *)
(* the usage holds, and call.usage is the response built from the plan.    *)
(***************************************************************************)
MaxBuckets == 3

\* Where a bucket lies: one of the regions of the free quota, another region,
\* an entry without a location label, or an entry without a resource.
BucketPlaces == {"us-central1", "us-west1", "us-east1", "eu", "nolabel", "noresource"}

\* GiB sent by a bucket: under and over the free quota of 100 GiB.
BucketGiB == {60, 120}

USCentral1 == Str(<<"u", "s", "-", "c", "e", "n", "t", "r", "a", "l", "1">>)

USWest1 == Str(<<"u", "s", "-", "w", "e", "s", "t", "1">>)

BytesPoint(gib) == IntPoint(Day1Ts, NatToChars(gib * BYTES_PER_GB))

PlannedBucket(b) ==
  CASE b.place = "us-central1" -> BucketEntry(USCentral1, <<BytesPoint(b.gib)>>)
    [] b.place = "us-west1" -> BucketEntry(USWest1, <<BytesPoint(b.gib)>>)
    [] b.place = "us-east1" -> BucketEntry(USEast1, <<BytesPoint(b.gib)>>)
    [] b.place = "eu" -> BucketEntry(Str(<<"e", "u">>), <<BytesPoint(b.gib)>>)
    [] b.place = "nolabel" ->
         Entry([bucket_name |-> Str(<<"b">>)], [k |-> Str(<<"v">>)], <<BytesPoint(b.gib)>>)
    [] b.place = "noresource" ->
         [resource |-> undefined, metric |-> undefined, points |-> <<BytesPoint(b.gib)>>]

BucketPlans ==
  UNION { [1..n -> [place : BucketPlaces, gib : BucketGiB]] : n \in 0..MaxBuckets }

StorageCalls ==
  { [fn |-> "calculator", calculator |-> "storage", plan |-> plan,
     usage |-> [i \in 1..Len(plan) |-> PlannedBucket(plan[i])]] : plan \in BucketPlans }

MaxRevisions == 2

\* What one entry of each Cloud Run metric holds: vCPU seconds, GiB-seconds,
\* GiB sent and requests, each three quarters of the monthly free allowance
\* (three fifths for the GiB sent).
RevisionUnits == [cpu |-> 150000, mem |-> 300000, net |-> 3, req |-> 1500000]

\* The number of entries of each of the four metrics.
RevisionPlans == [{"cpu", "mem", "net", "req"} -> 0..MaxRevisions]

PlannedRevisions(n, point) == [i \in 1..n |-> RevisionEntry(<<point>>)]

FunctionsCalls ==
  { [fn |-> "calculator", calculator |-> "functions", plan |-> plan,
     usage |-> << PlannedRevisions(plan.cpu, DoublePoint(Day1Ts, RevisionUnits.cpu)),
                  PlannedRevisions(plan.mem, DoublePoint(Day1Ts, RevisionUnits.mem)),
                  PlannedRevisions(plan.net, BytesPoint(RevisionUnits.net)),
                  PlannedRevisions(plan.req,
                    IntPoint(Day1Ts, NatToChars(RevisionUnits.req))) >>] :
      plan \in RevisionPlans }

\* The deployments a calculator is called in with empty responses: every
\* price configured or left at its value of ValidEnv, no price configured,
\* and no free-tier database configured.
EmptyEnvs ==
  { [ValidEnv EXCEPT !.MONITORING_ENABLED = STRUE],
    [NoPriceEnv EXCEPT !.MONITORING_ENABLED = STRUE],
    [ValidEnv EXCEPT !.MONITORING_ENABLED = STRUE,
                     !.FIRESTORE_FREE_TIER_DATABASE_NAME = undefined] }

\* Every calculator with responses that hold no entries.
EmptyCalls ==
  { [fn |-> "calculator", calculator |-> t, plan |-> <<>>, usage |-> NoUsage[t]] :
      t \in Calculators }

InitTotals ==
  /\ RunFresh
  /\ \/ /\ env = [ValidEnv EXCEPT !.MONITORING_ENABLED = STRUE]
        /\ (call \in StorageCalls \/ call \in FunctionsCalls)
     \/ /\ env \in EmptyEnvs
        /\ call \in EmptyCalls
  /\ result = NotReturned

NextTotals == CalculatorReturn

SpecTotals == InitTotals /\ [][NextTotals]_vars

RECURSIVE SumOver(_, _)
SumOver(f, S) ==
  IF S = {} THEN 0 ELSE LET x == CHOOSE x \in S : TRUE IN f[x] + SumOver(f, S \ {x})

InQuotaRegion(b) == b.place \in {"us-central1", "us-west1", "us-east1"}

\* GiB of the buckets of the plan that lie (quota = TRUE) or do not lie in a
\* region of the free quota.
PlannedGiB(plan, quota) ==
  SumOver([i \in 1..Len(plan) |-> plan[i].gib],
          {i \in 1..Len(plan) : InQuotaRegion(plan[i]) = quota})

FreeGiB == FREE_BANDWIDTH_QUOTA_BYTES \div BYTES_PER_GB

BillableGiB(plan) ==
  (IF PlannedGiB(plan, TRUE) > FreeGiB THEN PlannedGiB(plan, TRUE) - FreeGiB ELSE 0)
    + PlannedGiB(plan, FALSE)

StorageReturned == call.fn = "calculator" /\ call.calculator = "storage" /\ result # NotReturned

\* C21: getStorageCost bills max(0, bytes of the buckets in us-central1,
\* us-west1 and us-east1 together - 100 GiB) plus the bytes of all other
\* buckets, those without a location label included, at the price per GiB.
C21_StorageQuotaOnAggregate ==
  StorageReturned =>
    /\ result.ok
    /\ result.v = Mul(Num(BillableGiB(call.plan), 1),
                      getPrice(env.MONITOR_STORAGE_BANDWIDTH_COST,
                        DEFAULT_STORAGE_BANDWIDTH_COST, STORAGE_MIN_PRICE, STORAGE_MAX_PRICE))

\* Two buckets of 60 GiB in different quota regions and one of 60 GiB without
\* a location label: 20 GiB over the quota and 60 GiB outside it are billed,
\* at the configured price of 0.5 USD per GiB.
C21_Witness ==
  /\ StorageReturned
  /\ Len(call.plan) = 3
  /\ call.plan[1] = [place |-> "us-central1", gib |-> 60]
  /\ call.plan[2] = [place |-> "us-east1", gib |-> 60]
  /\ call.plan[3] = [place |-> "nolabel", gib |-> 60]
  /\ result = Ok(Num(40, 1))


FunctionsReturned ==
  /\ call.fn = "calculator" /\ call.calculator = "functions"
  /\ call \in FunctionsCalls
  /\ result # NotReturned

\* What is left of n entries of the given units above the free allowance.
PaidAbove(n, units, free) == IF n * units > free THEN n * units - free ELSE 0

\* C22: getCloudFunctionsCost takes each monthly free allowance off the total
\* of its own dimension only, never below 0, and returns the sum of the four
\* remainders at their prices: allowance left in one dimension lowers the
\* paid quantity of no other.
C22_FunctionsAllowancesIndependent ==
  FunctionsReturned =>
    /\ result.ok
    /\ result.v =
         Add(Add(Add(
           Mul(Num(PaidAbove(call.plan.cpu, RevisionUnits.cpu,
                             FREE_CPU_SECONDS_PER_MONTH), 1), DEFAULT_CPU_SECOND_COST),
           Mul(Num(PaidAbove(call.plan.mem, RevisionUnits.mem,
                             FREE_MEMORY_GB_SECONDS_PER_MONTH), 1),
               DEFAULT_MEMORY_GB_SECOND_COST)),
           Mul(Num(PaidAbove(call.plan.net, RevisionUnits.net,
                             FREE_NETWORK_EGRESS_BYTES_PER_MONTH \div BYTES_PER_GB), 1),
               DEFAULT_EGRESS_BANDWIDTH_COST)),
           Mul(Num(PaidAbove(call.plan.req, RevisionUnits.req, FREE_REQUESTS_PER_MONTH),
                   OPERATIONS_PER_MILLION), DEFAULT_REQUEST_COST))

\* Two entries of vCPU seconds (100000 above the allowance), one entry of
\* requests (below its allowance) and nothing else: 100000 vCPU seconds at
\* 0.000024 USD are billed, 2.4 USD.
C22_Witness ==
  /\ FunctionsReturned
  /\ call.plan = [cpu |-> 2, mem |-> 0, net |-> 0, req |-> 1]
  /\ result = Ok(Num(24, 10))


\* A calculator has returned or thrown on responses without entries.
EmptyReturned ==
  call.fn = "calculator" /\ call.usage = NoUsage[call.calculator] /\ result # NotReturned

\* C23: a calculator whose every response holds no entries returns the cost 0
\* and does not fail.
C23_EmptyResponsesCostNothing == EmptyReturned => result = Ok(Zero)


(***************************************************************************)
(* getFirestoreCost on planned usage: call.plan lists the entries of the   *)
(* enterprise read units metric (ent) and of the standard reads metric     *)
(* (std), the other three responses are empty.                             *)
(***************************************************************************)
MaxEntries == 2

\* The database of an entry: the free-tier database of ValidEnv, another
\* database, or an entry whose resource labels hold no database_id.
DbPlaces == {"default", "db3", "nolabel"}

DayTs == <<Day1Ts, Day2Ts>>

\* The points of an entry, as <<day, operations>> pairs: one point; two points
\* of one day that pass the daily quota of 50,000 together; two points of
\* different days, the later day first.
PointPlans ==
  { << <<1, 40000>> >>,
    << <<1, 40000>>, <<1, 30000>> >>,
    << <<2, 60000>>, <<1, 20000>> >> }

\* The points of an entry of the enterprise metric: none, one of value 0, one
\* of 40,000 units.
EnterprisePointPlans == { <<>>, << <<1, 0>> >>, << <<1, 40000>> >> }

PlannedPoints(points) ==
  [i \in 1..Len(points) |-> IntPoint(DayTs[points[i][1]], NatToChars(points[i][2]))]

PlannedDb(e) ==
  CASE e.place = "default" -> DbEntry(DbDefault, PlannedPoints(e.points))
    [] e.place = "db3" -> DbEntry(DbStandard, PlannedPoints(e.points))
    [] e.place = "nolabel" ->
         Entry([k |-> Str(<<"v">>)], [type |-> Str(<<"Q">>)], PlannedPoints(e.points))

PlannedResponse(entries) == [i \in 1..Len(entries) |-> PlannedDb(entries[i])]

PlannedFirestore(plan) ==
  << PlannedResponse(plan.ent), <<>>, PlannedResponse(plan.std), <<>>, <<>> >>

EnterprisePlans ==
  { <<>> } \cup { <<[place |-> d, points |-> ps]>> :
                    d \in {"default", "db3"}, ps \in EnterprisePointPlans }

StandardPlans ==
  UNION { [1..n -> [place : DbPlaces, points : PointPlans]] : n \in 0..MaxEntries }

FirestoreCalls ==
  { [fn |-> "calculator", calculator |-> "firestore",
     plan |-> [ent |-> ent, std |-> std],
     usage |-> PlannedFirestore([ent |-> ent, std |-> std])] :
      ent \in EnterprisePlans, std \in StandardPlans }

\* The free-tier database is configured, or FIRESTORE_FREE_TIER_DATABASE_NAME
\* is not set.
FirestoreEnvs ==
  { [ValidEnv EXCEPT !.MONITORING_ENABLED = STRUE],
    [ValidEnv EXCEPT !.MONITORING_ENABLED = STRUE,
                     !.FIRESTORE_FREE_TIER_DATABASE_NAME = undefined] }

\* What may be missing from an entry: its resource, the labels of its
\* resource, every label of its resource, its metric, the labels of its
\* metric, or every label key of its metric that the code knows.
LabelGaps(entry) ==
  << [entry EXCEPT !.resource = undefined],
     [entry EXCEPT !.resource = Obj(<<>>)],
     [entry EXCEPT !.resource = Labelled(<<>>)],
     [entry EXCEPT !.metric = undefined],
     [entry EXCEPT !.metric = Obj(<<>>)],
     [entry EXCEPT !.metric = Labelled([k |-> Str(<<"v">>)])] >>

\* A million operations, 2 GiB, 300,000 vCPU seconds.
LabelledEntries ==
  [ firestore |-> DbEntry(DbStandard, <<IntPoint(Day1Ts, Million)>>),
    hosting |-> SiteEntry(<<BytesPoint(2)>>),
    storage |-> BucketEntry(Str(<<"e", "u">>), <<BytesPoint(2)>>),
    functions |-> RevisionEntry(<<DoublePoint(Day1Ts, 300000)>>) ]

\* The usage of calculator t whose only entry is the given one.
OneEntryUsage(t, entry) ==
  CASE t = "firestore" -> << <<>>, <<>>, <<entry>>, <<>>, <<>> >>
    [] t = "hosting" -> <<entry>>
    [] t = "storage" -> <<entry>>
    [] t = "functions" -> << <<entry>>, <<>>, <<>>, <<>> >>

\* Every calculator on one entry with a gap; labelled is the same usage with
\* nothing missing.
LabelCalls ==
  { [fn |-> "calculator", calculator |-> t,
     labelled |-> OneEntryUsage(t, LabelledEntries[t]),
     usage |-> OneEntryUsage(t, LabelGaps(LabelledEntries[t])[gap])] :
      t \in Calculators, gap \in 1..6 }

InitEntries ==
  /\ RunFresh
  /\ \/ /\ env \in FirestoreEnvs
        /\ call \in FirestoreCalls
     \/ /\ env = [ValidEnv EXCEPT !.MONITORING_ENABLED = STRUE]
        /\ call \in LabelCalls
  /\ result = NotReturned

NextEntries == CalculatorReturn

SpecEntries == InitEntries /\ [][NextEntries]_vars

FirestoreReturnedPlan == call \in FirestoreCalls /\ result # NotReturned

Permuted(seq, p) == [i \in 1..Len(seq) |-> seq[p[i]]]

\* The plans that list the entries of the standard metric of the plan in
\* another order, and those that list the points of one of its entries in
\* another order.
Reordered(plan) ==
  { [plan EXCEPT !.std = Permuted(plan.std, p)] : p \in Permutations(1..Len(plan.std)) }
  \cup
  UNION { { [plan EXCEPT !.std[i].points = Permuted(plan.std[i].points, p)] :
              p \in Permutations(1..Len(plan.std[i].points)) } : i \in 1..Len(plan.std) }

PlanTimes(plan) ==
  {NowTs} \cup UNION { { DayTs[plan.std[i].points[j][1]] :
                             j \in 1..Len(plan.std[i].points) } :
                         i \in 1..Len(plan.std) }

C26_MissingLabelsTolerated ==
  (call \in LabelCalls /\ result # NotReturned)
    => /\ result.ok
       /\ result = CalculatorCost(call.calculator, call.labelled, env)


\* Operations the plan gives to the databases in places on calendar day d,
\* over all its standard entries.
PlannedCountOn(std, places, d) ==
  SumOver([ij \in (1..Len(std)) \X (1..2) |-> std[ij[1]].points[ij[2]][2]],
          { ij \in (1..Len(std)) \X (1..2) :
              /\ ij[2] <= Len(std[ij[1]].points)
              /\ std[ij[1]].place \in places
              /\ std[ij[1]].points[ij[2]][1] = d })

\* What is left to pay when every database in free receives one freeQuota per
\* calendar day, and every other database none.
PaidWithOneQuota(std, free, freeQuota) ==
  SumOver([d \in 1..2 |-> IF PlannedCountOn(std, free, d) > freeQuota
                            THEN PlannedCountOn(std, free, d) - freeQuota ELSE 0], 1..2)
    + SumOver([d \in 1..2 |-> PlannedCountOn(std, DbPlaces \ free, d)], 1..2)

ReadsCost(n) == Mul(Div(Num(n, 1), Num(OPERATIONS_PER_MILLION, 1)), DEFAULT_COST_STANDARD_READ)

\* C28: the free-tier database receives at most one freeQuota per calendar
\* day and metric, also when its usage arrives in several entries: the cost is
\* at least the cost of what one quota per day leaves to pay.
C28_OneQuotaPerDay ==
  (FirestoreReturnedPlan /\ call.plan.ent = <<>>
     /\ env.FIRESTORE_FREE_TIER_DATABASE_NAME = DbDefault)
    => /\ result.ok
       /\ Le(ReadsCost(PaidWithOneQuota(call.plan.std, {"default"},
                                        FREE_TIER_STANDARD_DAILY_READS)), result.v)

\* C29: without FIRESTORE_FREE_TIER_DATABASE_NAME no entry receives a quota,
\* an entry without database_id included: every operation is paid.
C29_NoFreeTierNoQuota ==
  (FirestoreReturnedPlan /\ call.plan.ent = <<>>
     /\ env.FIRESTORE_FREE_TIER_DATABASE_NAME = undefined)
    => result = Ok(ReadsCost(PaidWithOneQuota(call.plan.std, {}, 0)))


\* The usage that is grown by one entry or one point: up to MaxGrown
\* standard entries, with or without an enterprise entry.
MaxGrown == 1

GrowthCalls == { c \in FirestoreCalls : Len(c.plan.std) <= MaxGrown }

InitGrowth ==
  /\ RunFresh
  /\ env \in FirestoreEnvs
  /\ call \in GrowthCalls
  /\ result = NotReturned

NextGrowth == CalculatorReturn

SpecGrowth == InitGrowth /\ [][NextGrowth]_vars

\* Points that may be added to an entry: none, or some, on either day.
AddedPoints == { <<d, n>> : d \in 1..2, n \in {0, 30000} }

\* The plans that give a standard entry of the plan one more point.
WithStandardPoint(plan) ==
  { [plan EXCEPT !.std[i].points = Append(@, pt)] : i \in 1..Len(plan.std), pt \in AddedPoints }

\* The plans that give an enterprise entry of the plan one more point.
WithEnterprisePoint(plan) ==
  { [plan EXCEPT !.ent[i].points = Append(@, pt)] : i \in 1..Len(plan.ent), pt \in AddedPoints }

\* The plans with one more standard entry.
WithStandardEntry(plan) ==
  { [plan EXCEPT !.std = Append(@, e)] : e \in [place : DbPlaces, points : PointPlans] }

\* The plans with one more enterprise entry, of any database (TRUE) or only
\* of databases without an entry in the standard metric of the plan (FALSE).
WithEnterpriseEntry(plan, any) ==
  { [plan EXCEPT !.ent = Append(@, e)] :
      e \in { x \in [place : {"default", "db3"}, points : EnterprisePointPlans] :
                any \/ \A i \in 1..Len(plan.std) : plan.std[i].place # x.place } }

PlannedCost(plan) == getFirestoreCost(PlannedFirestore(plan), env, NowTs)

NoCheaper(plans) ==
  \A more \in plans : PlannedCost(more).ok /\ Le(result.v, PlannedCost(more).v)

\* C30 as stated: whatever entry or non-negative point is added to the usage,
\* the cost does not go down.
C30_NeverDecreases ==
  FirestoreReturnedPlan =>
    /\ result.ok
    /\ NoCheaper(WithStandardPoint(call.plan) \cup WithEnterprisePoint(call.plan)
                   \cup WithStandardEntry(call.plan) \cup WithEnterpriseEntry(call.plan, TRUE))

\* C30, amended: the cost does not go down when a non-negative point or a
\* standard entry is added, or an enterprise entry of a database that has no
\* entry in the standard metric; an enterprise entry of a database with
\* standard usage marks it Enterprise and takes that usage out of the total.
C30_NeverDecreasesUnlessMarked ==
  FirestoreReturnedPlan =>
    /\ result.ok
    /\ NoCheaper(WithStandardPoint(call.plan) \cup WithEnterprisePoint(call.plan)
                   \cup WithStandardEntry(call.plan) \cup WithEnterpriseEntry(call.plan, FALSE))
    /\ \A more \in WithEnterpriseEntry(call.plan, TRUE) :
         PlannedCost(more) = PlannedCost([more EXCEPT !.std =
           SelectSeq(call.plan.std, LAMBDA e : e.place # more.ent[Len(more.ent)].place)])

\* 40000 reads of db3 cost 0.012; an enterprise entry of db3 without points
\* brings the cost to 0, a further standard entry of db3 to 0.024.
C30_Witness ==
  /\ FirestoreReturnedPlan
  /\ env.FIRESTORE_FREE_TIER_DATABASE_NAME = DbDefault
  /\ call.plan = [ent |-> <<>>, std |-> << [place |-> "db3", points |-> << <<1, 40000>> >>] >>]
  /\ result = Ok(ReadsCost(40000))
  /\ PlannedCost([call.plan EXCEPT !.ent = << [place |-> "db3", points |-> <<>>] >>]) = Ok(Zero)
  /\ PlannedCost([call.plan EXCEPT !.std = Append(@, [place |-> "db3", points |-> << <<1, 40000>> >>])])
       = Ok(ReadsCost(80000))


(***************************************************************************)
(* Overlapping calls of getFirestoreCost                                   *)
(***************************************************************************)
\* Two invocations of the scheduled function may run in one instance: the
\* second call of getFirestoreCost may start while the first is at an await,
\* or after it has returned.
Runs == {1, 2}

MarksDbStandard ==
  [PaidUsage.firestore EXCEPT ![1] = <<DbEntry(DbStandard, <<IntPoint(Day1Ts, Million)>>)>>]

WithoutEnterprise == [PaidUsage.firestore EXCEPT ![1] = <<>>, ![2] = <<>>]

OverlapUsages == {PaidUsage.firestore, MarksDbStandard, WithoutEnterprise}

\* Mutation of enterpriseDatabaseIds: one set at module level, which a call
\* finds as the earlier calls left it.
enterpriseDatabaseIdsShared(live) == live

\* const enterpriseDatabaseIds = new Set(), in the body of getFirestoreCost:
\* every call makes its own empty set, whatever the sets of other calls
\* (live) hold.
enterpriseDatabaseIds(live) == {}

\* The sets of the other calls, as they are when call r looks.
LiveIds(r) == UNION { result[o].st.ids : o \in Runs \ {r} }

OverlapNotCalled ==
  [phase |-> 0, live |-> {}, st |-> NoEnterprise, cost |-> NotReturned]

\* getFirestoreCost up to its first await.
OverlapCalled(live) ==
  [phase |-> 1, live |-> live,
   st |-> [ok |-> TRUE, err |-> "", units |-> <<>>,
           ids |-> enterpriseDatabaseIds(live), pm |-> NowTs],
   cost |-> NotReturned]

\* getFirestoreCost resumes from the await of phase r.phase: the loops that
\* follow it and, after the last, the prices and the total.
OverlapResumed(r, st, e) ==
  [r EXCEPT !.phase = @ + 1, !.st = st,
            !.cost = IF r.phase = Len(FirestoreAwaits) THEN FirestoreCost(st, e) ELSE @]

InitOverlap ==
  /\ env = [ValidEnv EXCEPT !.MONITORING_ENABLED = STRUE]
  /\ RunFresh
  /\ call \in [Runs -> [fn : {"getFirestoreCost"}, usage : OverlapUsages]]
  /\ result = [r \in Runs |-> OverlapNotCalled]

\* A run calls getFirestoreCost.
OverlapCall ==
  /\ \E r \in Runs :
       /\ result[r].phase = 0
       /\ result' = [result EXCEPT ![r] = OverlapCalled(LiveIds(r))]
  /\ UNCHANGED <<runVars, call>>

\* The requests a call awaits have resolved and the call resumes.
OverlapResume ==
  /\ \E r \in Runs :
       /\ result[r].phase \in 1..Len(FirestoreAwaits)
       /\ result' = [result EXCEPT ![r] =
            OverlapResumed(result[r],
              FirestoreLoops(FirestoreLoopsAfter(FirestoreAwaits[result[r].phase],
                                                 call[r].usage),
                             1, env.FIRESTORE_FREE_TIER_DATABASE_NAME, result[r].st),
              env)]
  /\ UNCHANGED <<runVars, call>>

NextOverlap == OverlapCall \/ OverlapResume

SpecOverlap == InitOverlap /\ [][NextOverlap]_vars

\* C25: enterpriseDatabaseIds is empty when a call of getFirestoreCost starts
\* and holds afterwards exactly the databases of the call's own enterprise
\* metrics, whatever another call, finished or under way, has marked; the
\* call returns what it returns when it runs alone.
C25_EnterpriseIdsPrivate ==
  \A r \in Runs :
    /\ result[r].phase = 1 => result[r].st.ids = {}
    /\ result[r].phase >= 2 => result[r].st.ids = EnterpriseIdsOf(call[r].usage)
    /\ result[r].phase = Len(FirestoreAwaits) + 1
         => result[r].cost = getFirestoreCost(call[r].usage, env, NowTs)

\* The second call started when the first had marked db3, has no enterprise
\* usage of its own and bills db3's standard operations.
C25_Witness ==
  /\ call[1].usage = MarksDbStandard
  /\ call[2].usage = WithoutEnterprise
  /\ result[1].phase = 2
  /\ result[2].live = {DbStandard, DbOther}
  /\ result[2].phase = Len(FirestoreAwaits) + 1
  /\ result[2].st.ids = {}
  /\ result[2].cost = getFirestoreCost(WithoutEnterprise, env, NowTs)
  /\ result[2].cost # getFirestoreCost(MarksDbStandard, env, NowTs)


(***************************************************************************)
(* The earlier build: monitorUsage of monitoring/monitoring.js with the    *)
(* earlier firestore.js                                                    *)
(***************************************************************************)
\* total += calculatePaidOperations(db, ...) where the call may have returned
\* undefined: a number plus undefined is NaN.
PaidOperationsAddOld(acc, r) ==
  [ok |-> r.ok,
   v |-> IF ~r.ok THEN undefined ELSE IF r.v = undefined THEN NaN ELSE Add(acc.v, r.v),
   err |-> r.err, ids |-> r.ids, pm |-> r.pm]

RECURSIVE PaidOperationsLoopOld(_, _, _, _, _, _)
PaidOperationsLoopOld(data, i, isEnterpriseRequest, freeQuota, freeTierDatabaseId, acc) ==
  IF i > Len(data) \/ ~acc.ok THEN acc
  ELSE PaidOperationsLoopOld(data, i + 1, isEnterpriseRequest, freeQuota,
         freeTierDatabaseId,
         PaidOperationsAddOld(acc,
           calculatePaidOperationsOld(data[i], isEnterpriseRequest, freeQuota,
                                      freeTierDatabaseId, acc.ids, acc.pm)))

RECURSIVE FirestoreLoopsOld(_, _, _, _)
FirestoreLoopsOld(loops, i, freeTierDatabaseId, st) ==
  IF i > Len(loops) \/ ~st.ok THEN st
  ELSE FirestoreLoopsOld(loops, i + 1, freeTierDatabaseId,
         FirestoreLoopDone(st,
           PaidOperationsLoopOld(loops[i].data, 1, loops[i].isEnterpriseRequest,
             loops[i].freeQuota, freeTierDatabaseId,
             [ok |-> TRUE, v |-> Zero, err |-> "", ids |-> st.ids, pm |-> st.pm])))

\* The getPrice local to the earlier getFirestoreCost: between 0.01 and 1.00.
getPriceOld(envVar, defaultValue) == getPrice(envVar, defaultValue, Num(1, 100), Num(1, 1))

\* (units / 1_000_000) * price
FirestoreCostTotalOld(units, envVar, defaultValue) ==
  Mul(Div(units, Num(OPERATIONS_PER_MILLION, 1)), getPriceOld(envVar, defaultValue))

\* The prices and the total of the earlier getFirestoreCost: totalCost is
\* returned as it is.
FirestoreCostOld(st, e) ==
  IF ~st.ok THEN Throw(st.err)
  ELSE Ok(Add(Add(Add(Add(
         FirestoreCostTotalOld(st.units[3], e.MONITOR_FIRESTORE_STD_READ_COST,
                               DEFAULT_COST_STANDARD_READ),
         FirestoreCostTotalOld(st.units[4], e.MONITOR_FIRESTORE_STD_WRITE_COST,
                               DEFAULT_COST_STANDARD_WRITE)),
         FirestoreCostTotalOld(st.units[5], e.MONITOR_FIRESTORE_STD_DELETE_COST,
                               DEFAULT_COST_STANDARD_DELETE)),
         FirestoreCostTotalOld(st.units[1], e.MONITOR_FIRESTORE_ENT_READ_UNIT_COST,
                               DEFAULT_COST_ENTERPRISE_READ_UNIT)),
         FirestoreCostTotalOld(st.units[2], e.MONITOR_FIRESTORE_ENT_WRITE_UNIT_COST,
                               DEFAULT_COST_ENTERPRISE_WRITE_UNIT)))

\* The earlier getFirestoreCost from the arrival of its responses.
getFirestoreCostOld(responses, e, now) ==
  FirestoreCostOld(
    FirestoreLoopsOld(FirestoreLoopsAfter(<<1, 2, 3, 4, 5>>, responses), 1,
      e.FIRESTORE_FREE_TIER_DATABASE_NAME,
      [ok |-> TRUE, err |-> "", units |-> <<>>, ids |-> {}, pm |-> now]),
    e)

\* The tasks of the earlier monitorUsage.
TasksOld == {"budget", "firestore", "hosting"}

\* process.env.MONITORING_ENABLED !== "true"
MonitoringDisabledOld(e) == e.MONITORING_ENABLED # STRUE

\* totalCost starts at 0 and each calculator's then adds its cost.
TotalCostOld(p) == Add(Add(Zero, p["firestore"].v), p["hosting"].v)

\* Runs of the earlier build: no Firestore usage, usage of a standard and an
\* enterprise database, or standard usage of a database that an enterprise
\* metric reports as well; no hosting traffic or 4 GiB of it.
UsagesOld ==
  [ firestore : {NoUsage.firestore, PaidUsage.firestore, MarksDbStandard},
    hosting : {NoUsage.hosting, <<SiteEntry(<<BytesPoint(4)>>)>>} ]

InitOld ==
  /\ env \in { [ValidEnv EXCEPT !.MONITORING_ENABLED = m] : m \in {STRUE, STEST} }
  /\ RunFresh
  /\ \E usage \in UsagesOld :
       call = [fn |-> "monitorUsage", budget |-> OneDollarBudget, usage |-> usage]
  /\ result = NotReturned

\* The earlier monitorUsage is called with monitoring not enabled.
MonitorDisabledOld ==
  /\ pc = "entry"
  /\ MonitoringDisabledOld(env)
  /\ pc' = "returned"
  /\ outcome' = "disabled"
  /\ result' = Ok(undefined)
  /\ UNCHANGED <<env, promise, budgetPc, budgetData, firestoreEnt, totalCost,
                 budgetAmount, calls, call>>

\* The earlier monitorUsage starts its three tasks and awaits them.
MonitorStartOld ==
  /\ pc = "entry"
  /\ ~MonitoringDisabledOld(env)
  /\ promise' = [t \in Tasks |-> IF t \in TasksOld THEN Pending ELSE Idle]
  /\ budgetPc' = "getProjectBillingInfo"
  /\ calls' = [calls EXCEPT !.getProjectBillingInfo = @ + 1,
                            !.listTimeSeries = @ + 2]
  /\ pc' = "await_all"
  /\ UNCHANGED <<env, outcome, budgetData, firestoreEnt, totalCost,
                 budgetAmount, callVars>>

\* The earlier getFirestoreCost or getHostingCost completes.
CalculatorOld ==
  /\ \E t \in TasksOld \ {"budget"} :
       /\ promise[t].st = "pending"
       /\ promise' = [promise EXCEPT ![t] = Settled(
            IF t = "firestore" THEN getFirestoreCostOld(call.usage.firestore, env, NowTs)
            ELSE getHostingCost(call.usage.hosting, env))]
  /\ UNCHANGED <<env, pc, outcome, budgetPc, budgetData, firestoreEnt,
                 totalCost, budgetAmount, calls, callVars>>

\* Promise.all has resolved: if (totalCost > budgetAmount) executeDisable,
\* else the usage is logged as within the budget.
MonitorDecideOld ==
  /\ pc = "await_all"
  /\ \A t \in TasksOld : promise[t].st = "fulfilled"
  /\ budgetAmount' = promise["budget"].v
  /\ totalCost' = TotalCostOld(promise)
  /\ IF Gt(totalCost', budgetAmount')
     THEN /\ pc' = "await_disable"
          /\ outcome' = outcome
          /\ calls' = [calls EXCEPT !.executeDisable = @ + 1]
          /\ result' = result
     ELSE /\ pc' = "returned"
          /\ outcome' = "within"
          /\ calls' = calls
          /\ result' = Ok(undefined)
  /\ UNCHANGED <<env, promise, budgetPc, budgetData, firestoreEnt, call>>

NextOld ==
  \/ MonitorDisabledOld
  \/ MonitorStartOld
  \/ BillingInfoResolve
  \/ GetBudgetUsage
  \/ CalculatorOld
  \/ MetricsConnectorError
  \/ MonitorReject
  \/ MonitorDecideOld
  \/ DisableResolve
  \/ DisableReject

SpecOld == InitOld /\ [][NextOld]_vars

\* C27: executeDisable is invoked only on a finite totalCost above the budget;
\* a run whose totalCost is NaN neither invokes executeDisable nor reports
\* the usage as within the budget.
C27_NaNNeverDecides ==
  /\ calls.executeDisable > 0 => isFinite(totalCost) /\ Gt(totalCost, budgetAmount)
  /\ totalCost = NaN => calls.executeDisable = 0 /\ outcome # "within"

=============================================================================
